---- MODULE Spec2Model ----
(***************************************************************************)
(* A model of the uniswap-sdk core: the UniversalRouter command codec      *)
(* (universal_router.py), order construction (types.py, main.py), the      *)
(* routing solver with plan compilation (solver.py, utils.py), the managed *)
(* liquidity of v3 pools (v3.py) and the Uniswap entry points (main.py,    *)
(* permit2.py).                                                            *)
(*                                                                         *)
(* Several specifications share the module: SpecCodec, SpecOrder,          *)
(* SpecSolver (with SpecCycle and SpecUninit), SpecLiq, SpecSub and        *)
(* SpecUniswap.  Each drives its own variables and leaves the others at    *)
(* their initial values.                                                   *)
(***************************************************************************)
EXTENDS Integers, Sequences, FiniteSets, TLC

VARIABLES
    \* ---- codec (universal_router.py) ----
    commands,     \* Plan.commands of the plan under construction
    build_err,    \* error raised by the last Command construction ("" = none)
    wire,         \* the (command bytes, argument byte strings) pair given to Plan.decode
    tamper,       \* how the pair differs from the plan's own encoding
    decoded,      \* result of Plan.decode on wire
    reenc,        \* result of re-encoding the decoded plan
    cpc,          \* position of the codec scenario
    \* ---- orders (types.py, main.py) ----
    call,         \* arguments of the create_order call
    order_res,    \* result of create_order
    opc,          \* position of the order scenario
    \* ---- solver and compiler (solver.py, utils.py) ----
    order,        \* the Order given to solve
    routes,       \* candidate routes (sequence of sequences of pool ids)
    reserves,     \* reserve profile of the pools
    graph,        \* edges of the MultiDiGraph G built by solve
    flows,        \* flowDict returned by nx.min_cost_flow
    solution,     \* Solution returned by solve (route -> amount / total)
    solve_res,    \* "none", "ok" or the error solve raised
    permit,       \* whether a permit_step is passed to the compiler
    plan_res,     \* result of convert_solution_to_plan
    spc,          \* position of the solver scenario
    \* ---- managed liquidity of a v3 pool (v3.py) ----
    lq_pool,      \* the pool whose liquidity is read
    lq_chain,     \* what the chain holds: the pool's token balances and slot0.tick
    lq_managed,   \* reserve0, reserve1, current_tick of the pool's _ManagedLiquidity
    lq_logs,      \* Swap logs emitted and not yet handled by sync_pool_liquidity
    lq_pc,        \* "idle", "live" (Liquidity) or "managed" (_ManagedLiquidity)
    \* ---- Uniswap.solve / create_plan / swap (main.py, permit2.py) ----
    explicit,     \* the routes= argument of the call (<<>> when not given)
    indexed,      \* what find_routes yields for the order's tokens
    sender,       \* the sender= keyword: "none", or an account's Permit2 allowance
    consulted,    \* whether Uniswap.solve called find_routes
    call_res,     \* "none", "ok" or the error the call raised
    \* ---- EXECUTE_SUB_PLAN (universal_router.py) ----
    sub_args,     \* args of the command: <<command bytes, argument strings>>
    sub_err       \* "idle", "none" or the error of the last add_step / rm_step

codec_vars  == <<commands, build_err, wire, tamper, decoded, reenc, cpc>>
order_vars  == <<call, order_res, opc>>
solver_vars == <<order, routes, reserves, graph, flows, solution, solve_res,
                 permit, plan_res, spc>>
liq_vars    == <<lq_pool, lq_chain, lq_managed, lq_logs, lq_pc>>
call_vars   == <<explicit, indexed, sender, consulted, call_res>>
sub_vars    == <<sub_args, sub_err>>
ext_vars    == <<liq_vars, call_vars, sub_vars>>
vars == <<codec_vars, order_vars, solver_vars, ext_vars>>

(***************************************************************************)
(* Generic helpers                                                         *)
(***************************************************************************)
Min(a, b) == IF a <= b THEN a ELSE b
Max(a, b) == IF a >= b THEN a ELSE b

RECURSIVE SumSeq(_)
SumSeq(s) == IF s = <<>> THEN 0 ELSE Head(s) + SumSeq(Tail(s))

RECURSIVE Flatten(_)
Flatten(ss) == IF ss = <<>> THEN <<>> ELSE Head(ss) \o Flatten(Tail(ss))

Zeros(n) == [i \in 1..n |-> 0]

\* 256^k for the byte positions a bounded integer can occupy
Pow256(k) == CASE k = 0 -> 1 [] k = 1 -> 256 [] k = 2 -> 65536 [] k = 3 -> 16777216

\* big-endian encoding of n on w bytes
UintBytes(n, w) ==
    [i \in 1..w |-> IF w - i >= 4 THEN 0 ELSE (n \div Pow256(w - i)) % 256]

\* value of a big-endian byte string; -1 when it exceeds the modelled integer range
BytesToUint(b) ==
    LET n == Len(b)
        lead == {i \in 1..n : n - i >= 4 \/ (n - i = 3 /\ b[i] >= 128)}
    IN  IF \E i \in lead : b[i] # 0 THEN -1
        ELSE SumSeq([i \in 1..n |-> IF n - i >= 4 THEN 0 ELSE b[i] * Pow256(n - i)])

(***************************************************************************)
(* universal_router.py: constants and the command table                    *)
(***************************************************************************)
ALLOW_REVERT_FLAG == 128
COMMAND_TYPE_MASK == 63
WORD == 32
ADDRESS_BYTES == 20
FEE_BYTES == 3

\* Command.type of every class registered in ALL_COMMANDS_BY_TYPE
ALL_COMMANDS_BY_TYPE ==
    {0, 1, 2, 3, 4, 5, 6, 8, 9, 10, 11, 12, 13, 14, 16, 17, 18, 19,
     21, 22, 23, 24, 25, 26, 27, 28, 29, 30, 32, 33, 34}

V3_SWAP_EXACT_IN  == 0
V3_SWAP_EXACT_OUT == 1
V2_SWAP_EXACT_IN  == 8
V2_SWAP_EXACT_OUT == 9
PERMIT2_PERMIT    == 10
WRAP_ETH          == 11

\* classes deriving from _V3_EncodePathInput
V3PathClasses == {V3_SWAP_EXACT_IN, V3_SWAP_EXACT_OUT}

\* Command.definition of each class: the canonical ABI types of its arguments
definition(op) ==
    CASE op \in {0, 1}   -> <<"address", "uint256", "uint256", "bytes", "bool">>
      [] op = 2          -> <<"address", "address", "uint160">>
      [] op = 3          -> <<"tuple[]", "address", "uint256">>
      [] op \in {4, 5, 6} -> <<"address", "address", "uint256">>
      [] op \in {8, 9}   -> <<"address", "uint256", "uint256", "address[]", "bool">>
      [] op = 10         -> <<"tuple", "address", "uint256">>
      [] op \in {11, 12} -> <<"address", "uint256">>
      [] op = 13         -> <<"tuple[]">>
      [] op = 14         -> <<"address", "address", "uint256">>
      [] op \in {16, 17, 18, 25, 26, 30, 32} -> <<"uint256", "bytes">>
      [] op = 19         -> <<"uint256", "address", "uint256">>
      [] op = 21         -> <<"address", "address", "uint256">>
      [] op = 22         -> <<"address", "address", "uint256", "uint256">>
      [] op = 23         -> <<"address", "address", "uint256">>
      [] op \in {24, 28} -> <<"uint256", "bytes", "address", "address", "uint256">>
      [] op = 27         -> <<"uint256", "bytes", "address", "address", "uint256", "uint256">>
      [] op = 29         -> <<"address", "address", "uint256", "uint256">>
      [] op = 33         -> <<"bytes", "bytes[]">>
      [] op = 34         -> <<"address", "address">>

\* Command.is_revertible: the class default, which no class overrides
is_revertible_all(op) == TRUE

is_revertible(op) == FALSE

StaticTypes == {"address", "uint256", "uint160", "bool"}

(***************************************************************************)
(* Argument values.  Every value is a record [k, v]: k is the Python shape *)
(* ("word" for an address, integer or bool; "bytes"; "list" or "tuple" for *)
(* a sequence) and v the sequence of its integers.                         *)
(***************************************************************************)
WordV(n)  == [k |-> "word",  v |-> <<n>>]
BytesV(b) == [k |-> "bytes", v |-> b]
ListV(s)  == [k |-> "list",  v |-> s]
TupleV(s) == [k |-> "tuple", v |-> s]

Ok(x)    == [ok |-> TRUE, val |-> x, err |-> ""]
Err(e)   == [ok |-> FALSE, val |-> <<>>, err |-> e]

(***************************************************************************)
(* encode_path / decode_path                                               *)
(***************************************************************************)
\* encode_packed of one path element: address at odd positions, uint24 at even ones
PackedElem(i, x) ==
    IF i % 2 = 1 THEN UintBytes(x, ADDRESS_BYTES) ELSE UintBytes(x, FEE_BYTES)

\* The length test builds a ValueError without raising it, so every path is packed.
encode_path(path) ==
    Flatten([i \in 1..Len(path) |-> PackedElem(i, path[i])])

RECURSIVE decode_path_from(_, _)
decode_path_from(data, i) ==
    IF Len(data) = 0 THEN <<>>
    ELSE LET idx == IF i % 2 = 1 THEN ADDRESS_BYTES ELSE FEE_BYTES
             n == Min(idx, Len(data))
         IN  <<BytesToUint(SubSeq(data, 1, n))>>
                 \o decode_path_from(SubSeq(data, n + 1, Len(data)), i + 1)

decode_path(data) == decode_path_from(data, 1)

(***************************************************************************)
(* ABI packing of a command's arguments (abi_encode / abi_decode as called *)
(* by Command.encode_args and Command._decode_args).  A static argument is *)
(* one 32-byte word in the head; a dynamic one (bytes, address[]) is an    *)
(* offset word in the head and length + payload in the tail.               *)
(***************************************************************************)
Word(n) == UintBytes(n, WORD)
Pad32(n) == (WORD - (n % WORD)) % WORD

\* whether value x has the Python shape that type t encodes
Encodable(t, x) ==
    CASE t \in StaticTypes -> x.k = "word" /\ Len(x.v) = 1 /\ x.v[1] >= 0
                                /\ (t = "bool" => x.v[1] \in {0, 1})
      [] t = "bytes"       -> x.k = "bytes"
      [] t = "address[]"   -> x.k \in {"list", "tuple"} /\ \A i \in 1..Len(x.v) : x.v[i] >= 0
      [] OTHER             -> FALSE

AbiTail(t, x) ==
    CASE t = "bytes"     -> Word(Len(x.v)) \o x.v \o Zeros(Pad32(Len(x.v)))
      [] t = "address[]" -> Word(Len(x.v)) \o Flatten([i \in 1..Len(x.v) |-> Word(x.v[i])])
      [] OTHER           -> <<>>

abi_encode(types, vals) ==
    LET n == Len(types)
        tails == [i \in 1..n |-> AbiTail(types[i], vals[i])]
        off(i) == WORD * n + SumSeq([j \in 1..(i - 1) |-> Len(tails[j])])
        heads == [i \in 1..n |->
                    IF types[i] \in StaticTypes THEN Word(vals[i].v[1]) ELSE Word(off(i))]
    IN  Flatten(heads) \o Flatten(tails)

\* Command.encode_args
encode_args(cmd) ==
    LET types == definition(cmd.type)
    IN  IF \A i \in 1..Len(types) : Encodable(types[i], cmd.args[i])
        THEN Ok(abi_encode(types, cmd.args))
        ELSE Err("EncodingError")

\* One decoded argument: Ok(value) or Err.  strict=False: the padding after a
\* byte string is neither required nor inspected; bytes after the data are ignored.
AbiDecodeOne(t, i, data) ==
    LET head == SubSeq(data, WORD * (i - 1) + 1, WORD * i)
        h == BytesToUint(head)
    IN  IF t \in StaticTypes
        THEN IF h < 0 \/ (t = "bool" /\ h > 1) THEN Err("DecodingError") ELSE Ok(WordV(h))
        ELSE IF h < 0 \/ h + WORD > Len(data) THEN Err("DecodingError")
        ELSE LET len == BytesToUint(SubSeq(data, h + 1, h + WORD))
             IN  IF len < 0 THEN Err("DecodingError")
                 ELSE IF t = "bytes"
                 THEN IF h + WORD + len > Len(data) THEN Err("DecodingError")
                      ELSE Ok(BytesV(SubSeq(data, h + WORD + 1, h + WORD + len)))
                 ELSE IF t = "address[]"
                 THEN IF h + WORD + WORD * len > Len(data) THEN Err("DecodingError")
                      ELSE LET ws == [j \in 1..len |->
                                        BytesToUint(SubSeq(data, h + WORD * j + 1,
                                                           h + WORD * (j + 1)))]
                           IN  IF \E j \in 1..len : ws[j] < 0 THEN Err("DecodingError")
                               ELSE Ok(ListV(ws))
                 ELSE Err("DecodingError")

\* Command._decode_args
decode_args(op, calldata) ==
    LET types == definition(op)
        n == Len(types)
    IN  IF Len(calldata) < WORD * n THEN Err("DecodingError")
        ELSE LET rs == [i \in 1..n |-> AbiDecodeOne(types[i], i, calldata)]
             IN  IF \E i \in 1..n : ~rs[i].ok THEN Err("DecodingError")
                 ELSE Ok([i \in 1..n |-> rs[i].val])

(***************************************************************************)
(* Command                                                                 *)
(***************************************************************************)
Cmd(op, args, rev) == [type |-> op, args |-> args, allow_revert |-> rev]

\* _V3_EncodePathInput.encode_path_input (mode="before"): args is the caller's
\* container, a list (Command(args=[...])) or a tuple (the Plan builder's *args)
encode_path_input(op, args, container) ==
    IF op \notin V3PathClasses THEN Ok(args)
    ELSE IF Len(args) < 4 THEN Err("IndexError")
    ELSE IF args[4].k # "list" THEN Ok(args)
    ELSE IF container = "tuple" THEN Err("TypeError")
    ELSE Ok([args EXCEPT ![4] = BytesV(encode_path(args[4].v))])

\* Command.validate_args
validate_args(op, args) ==
    IF Len(args) # Len(definition(op)) THEN Err("ValueError") ELSE Ok(args)

\* command_cls(args=..., allow_revert=...)
Command_new(op, args, container, rev) ==
    LET a == encode_path_input(op, args, container)
    IN  IF ~a.ok THEN a
        ELSE LET b == validate_args(op, a.val)
             IN  IF ~b.ok THEN b ELSE Ok(Cmd(op, b.val, rev))

\* Command.command_byte
command_byte_flag64(cmd) ==
    (IF cmd.allow_revert THEN 64 ELSE 0) + cmd.type

command_byte(cmd) ==
    (IF cmd.allow_revert THEN ALLOW_REVERT_FLAG ELSE 0) + cmd.type

\* byte & mask for the two masks the decoder applies
BitAnd(byte, mask) ==
    CASE mask = COMMAND_TYPE_MASK -> byte % 64
      [] mask = ALLOW_REVERT_FLAG -> (byte \div 128) * 128

\* Command.decode
Command_decode(byte, calldata) ==
    LET command_type == BitAnd(byte, COMMAND_TYPE_MASK)
        allow_revert == BitAnd(byte, ALLOW_REVERT_FLAG) # 0
    IN  IF command_type \notin ALL_COMMANDS_BY_TYPE THEN Err("NotImplementedError")
        ELSE IF allow_revert /\ ~is_revertible(command_type) THEN Err("ValueError")
        ELSE LET a == decode_args(command_type, calldata)
             IN  IF ~a.ok THEN a
                 ELSE Command_new(command_type, a.val, "list", allow_revert)

(***************************************************************************)
(* Plan                                                                    *)
(***************************************************************************)
\* Plan.encoded_commands
encoded_commands(cmds) == [i \in 1..Len(cmds) |-> command_byte(cmds[i])]

\* Plan.encode_args
Plan_encode_args(cmds) ==
    LET rs == [i \in 1..Len(cmds) |-> encode_args(cmds[i])]
    IN  IF \E i \in 1..Len(cmds) : ~rs[i].ok THEN Err("EncodingError")
        ELSE Ok([i \in 1..Len(cmds) |-> rs[i].val])

\* Plan.decode: zip stops at the shorter of the two sequences
Plan_decode(enc_cmds, enc_args) ==
    LET n == Min(Len(enc_cmds), Len(enc_args))
        rs == [i \in 1..n |-> Command_decode(enc_cmds[i], enc_args[i])]
        bad == {i \in 1..n : ~rs[i].ok}
    IN  IF bad # {}
        THEN Err(rs[CHOOSE i \in bad : \A j \in bad : i <= j].err)
        ELSE Ok([i \in 1..n |-> rs[i].val])

(***************************************************************************)
(* Codec scenario: a plan is built command by command, encoded, handed to  *)
(* Plan.decode (as encoded, or altered in transit) and encoded again.      *)
(***************************************************************************)
MaxPlanLen == 2

SamplePath == <<3, 500, 4>>

\* (class, args) pairs a caller may pass to a Command constructor
SampleCalls ==
    { <<WRAP_ETH, <<WordV(1), WordV(5)>> >>,
      <<WRAP_ETH, <<WordV(2), WordV(300)>> >>,
      <<WRAP_ETH, <<WordV(1)>> >>,
      <<V2_SWAP_EXACT_IN, <<WordV(1), WordV(7), WordV(3), ListV(<<3, 4>>), WordV(1)>> >>,
      <<V3_SWAP_EXACT_IN,
        <<WordV(1), WordV(7), WordV(3), BytesV(encode_path(SamplePath)), WordV(0)>> >>,
      <<V3_SWAP_EXACT_OUT, <<WordV(1), WordV(7), WordV(3), ListV(SamplePath), WordV(1)>> >>,
      <<V3_SWAP_EXACT_IN, <<WordV(1), WordV(7), WordV(3), ListV(<<3, 500>>), WordV(1)>> >>,
      <<V3_SWAP_EXACT_IN, <<WordV(1), WordV(7), WordV(3), TupleV(SamplePath), WordV(1)>> >> }

NoWire == [cmds |-> <<>>, args |-> <<>>]
NoResult == [ok |-> FALSE, val |-> <<>>, err |-> "none"]
NoReenc == [cmds |-> <<>>, args |-> NoResult]

CodecIdle ==
    /\ commands = <<>>
    /\ build_err = ""
    /\ wire = NoWire
    /\ tamper = "none"
    /\ decoded = NoResult
    /\ reenc = NoReenc

\* Plan.add, after constructing the command from `container` args
AddCommand(op, args, container, rev) ==
    /\ cpc = "build"
    /\ Len(commands) < MaxPlanLen
    /\ LET r == Command_new(op, args, container, rev)
       IN  IF r.ok
           THEN commands' = Append(commands, r.val) /\ build_err' = ""
           ELSE commands' = commands /\ build_err' = r.err
    /\ UNCHANGED <<wire, tamper, decoded, reenc, cpc>>

\* plan.add(Command(args=[...], allow_revert=...))
PlanAdd ==
    \E c \in SampleCalls, rev \in BOOLEAN : AddCommand(c[1], c[2], "list", rev)

\* plan.<command_name>(*args, **kwargs): Plan.__getattr__'s add_command
PlanBuilder ==
    \E c \in SampleCalls, rev \in BOOLEAN : AddCommand(c[1], c[2], "tuple", rev)

\* the pair (plan.encoded_commands, plan.encode_args()) as execute() sends it
PlanEncode ==
    /\ cpc = "build"
    /\ LET a == Plan_encode_args(commands)
       IN  IF a.ok
           THEN /\ wire' = [cmds |-> encoded_commands(commands), args |-> a.val]
                /\ cpc' = "wire"
                /\ build_err' = ""
           ELSE /\ wire' = wire
                /\ cpc' = "failed"
                /\ build_err' = a.err
    /\ UNCHANGED <<commands, tamper, decoded, reenc>>

TamperKinds ==
    {"bit6", "revert", "unknown", "surplus", "trailing", "truncate", "droparg", "dropcmd"}

\* an opcode the command table does not hold
UnknownOpcode == CHOOSE b \in 0..COMMAND_TYPE_MASK : b \notin ALL_COMMANDS_BY_TYPE

Tampered(w, kind, i) ==
    CASE kind = "bit6"     -> [w EXCEPT !.cmds[i] = @ + 64]
      [] kind = "revert"   -> [w EXCEPT !.cmds[i] = @ + ALLOW_REVERT_FLAG]
      [] kind = "unknown"  -> [w EXCEPT !.cmds[i] = UnknownOpcode]
      [] kind = "surplus"  -> [w EXCEPT !.cmds = Append(@, UnknownOpcode)]
      [] kind = "trailing" -> [w EXCEPT !.args[i] = @ \o <<255>>]
      [] kind = "truncate" -> [w EXCEPT !.args[i] = SubSeq(@, 1, Len(@) - WORD)]
      [] kind = "droparg"  -> [w EXCEPT !.args = SubSeq(@, 1, Len(@) - 1)]
      [] kind = "dropcmd"  -> [w EXCEPT !.cmds = SubSeq(@, 1, Len(@) - 1)]

\* Plan.decode is also given pairs that no Plan of this library produced
\* (decode_plan_from_calldata): the encoding with one alteration
ReceiveAltered ==
    /\ cpc = "wire"
    /\ tamper = "none"
    /\ \E kind \in TamperKinds, i \in 1..Len(wire.cmds) :
          /\ kind = "bit6" => wire.cmds[i] % 128 < 64
          /\ kind = "revert" => wire.cmds[i] < 128
          /\ wire' = Tampered(wire, kind, i)
          /\ tamper' = kind
    /\ UNCHANGED <<commands, build_err, decoded, reenc, cpc>>

\* Plan.decode(encoded_commands, encoded_args)
PlanDecode ==
    /\ cpc = "wire"
    /\ decoded' = Plan_decode(wire.cmds, wire.args)
    /\ cpc' = "decoded"
    /\ UNCHANGED <<commands, build_err, wire, tamper, reenc>>

\* decoded.encoded_commands and decoded.encode_args()
PlanReEncode ==
    /\ cpc = "decoded"
    /\ decoded.ok
    /\ reenc' = [cmds |-> encoded_commands(decoded.val),
                 args |-> Plan_encode_args(decoded.val)]
    /\ cpc' = "done"
    /\ UNCHANGED <<commands, build_err, wire, tamper, decoded>>

(***************************************************************************)
(* Decimal arithmetic.  A Decimal is a fraction <<n, d>> with d > 0, kept  *)
(* in lowest terms; every value of the model is exact in Decimal's 28      *)
(* digits or rounds as the exact fraction does.                            *)
(***************************************************************************)
Abs(x) == IF x < 0 THEN -x ELSE x

RECURSIVE GCD(_, _)
GCD(a, b) == IF b = 0 THEN a ELSE GCD(b, a % b)

Frac(n, d) ==
    LET g == GCD(Abs(n), Abs(d))
        sgn == IF d < 0 THEN -1 ELSE 1
    IN  IF g = 0 THEN <<0, 1>> ELSE <<sgn * (n \div g), sgn * (d \div g)>>

DInt(n)    == <<n, 1>>
DMul(a, b) == Frac(a[1] * b[1], a[2] * b[2])
DDiv(a, b) == Frac(a[1] * b[2], a[2] * b[1])
DAdd(a, b) == Frac(a[1] * b[2] + b[1] * a[2], a[2] * b[2])
DSub(a, b) == Frac(a[1] * b[2] - b[1] * a[2], a[2] * b[2])
DLt(a, b)  == a[1] * b[2] < b[1] * a[2]
DLe(a, b)  == a[1] * b[2] <= b[1] * a[2]
DIsZero(a) == a[1] = 0

\* int(x): truncation toward zero
DTrunc(a) == IF a[1] >= 0 THEN a[1] \div a[2] ELSE -((-a[1]) \div a[2])

Pow10(k) == CASE k = 0 -> 1 [] k = 1 -> 10 [] k = 2 -> 100 [] k = 3 -> 1000
              [] k = 4 -> 10000 [] k = 5 -> 100000 [] k = 6 -> 1000000

\* round-half-even of a non-negative fraction n/d to an integer
RoundHalfEven(n, d) ==
    LET q == n \div d
        r == n % d
    IN  IF 2 * r < d THEN q
        ELSE IF 2 * r > d THEN q + 1
        ELSE IF q % 2 = 0 THEN q ELSE q + 1

\* x.quantize(Decimal("1e-<places>")): the number of 10^-places units kept
quantize(a, places) ==
    LET n == Abs(a[1]) * Pow10(places)
        r == RoundHalfEven(n, a[2])
    IN  IF a[1] < 0 THEN -r ELSE r

(***************************************************************************)
(* Tokens: addresses of ERC-20 contracts and their decimals()              *)
(***************************************************************************)
Tokens == {"A", "M", "B", "N"}

\* TokenInstance.address
address(token) ==
    CASE token = "A" -> 3 [] token = "M" -> 4 [] token = "B" -> 5 [] token = "N" -> 6

\* TokenInstance.decimals()
decimals(token) ==
    CASE token = "A" -> 0 [] token = "M" -> 0 [] token = "B" -> 1 [] token = "N" -> 0

(***************************************************************************)
(* types.py: ExactInOrder / ExactOutOrder.  An order is held as            *)
(*   [kind, have, want, amt_in, amt_out, slippage]                         *)
(* where amt_in is amount_in (ExactIn) or max_amount_in (ExactOut) and     *)
(* amt_out is min_amount_out (ExactIn) or amount_out (ExactOut), each the  *)
(* stored Decimal counted in units of 10^-decimals of its token.           *)
(***************************************************************************)
\* Field(gt=Decimal(0)) on both amount fields, checked on the values passed in
FieldsPositive(a_in, a_out) == DLt(DInt(0), a_in) /\ DLt(DInt(0), a_out)

\* the model_validator(mode="after") truncate_amounts of both classes
truncate_amounts(kind, have, want, a_in, a_out, slip) ==
    [kind |-> kind, have |-> have, want |-> want,
     amt_in |-> quantize(a_in, decimals(have)),
     amt_out |-> quantize(a_out, decimals(want)),
     slippage |-> slip]

\* ExactInOrder(...) / ExactOutOrder(...): field validation, then truncate_amounts
Order_new(kind, have, want, a_in, a_out, slip) ==
    IF ~FieldsPositive(a_in, a_out) THEN Err("ValidationError")
    ELSE Ok(truncate_amounts(kind, have, want, a_in, a_out, slip))

(***************************************************************************)
(* main.py: Uniswap.create_order.  An argument is [g, d, v]: g says whether*)
(* it was given (not None), d whether it is a Decimal (else an int of      *)
(* smallest units), v its value as a fraction.                             *)
(***************************************************************************)
NoneArg      == [g |-> FALSE, d |-> FALSE, v |-> <<0, 1>>]
DecArg(n, d) == [g |-> TRUE, d |-> TRUE, v |-> Frac(n, d)]
IntArg(n)    == [g |-> TRUE, d |-> FALSE, v |-> <<n, 1>>]

\* Python truthiness of an argument: None, 0 and Decimal(0) are all falsy
Truthy(a) == a.g /\ ~DIsZero(a.v)

\* Decimal(convert(x, int)) / Decimal(10 ** token.decimals()) for a non-Decimal
AsDecimal(a, token) == IF a.d THEN a.v ELSE DDiv(a.v, DInt(Pow10(decimals(token))))

DEFAULT_SLIPPAGE == <<5, 1000>>
SLIPPAGE_PLACES == 5

\* (x).quantize(Decimal("1e-5")) as a Decimal again
QuantizedSlippage(x) == Frac(quantize(x, SLIPPAGE_PLACES), Pow10(SLIPPAGE_PLACES))

create_order(have, want, amount_in, amount_out, max_amount_in, min_amount_out, slippage, price) ==
    IF Truthy(amount_in) /\ Truthy(amount_out) THEN Err("ValueError")
    ELSE IF Truthy(amount_in) /\ Truthy(max_amount_in) THEN Err("ValueError")
    ELSE IF Truthy(amount_out) /\ Truthy(min_amount_out) THEN Err("ValueError")
    ELSE
    LET a_in  == AsDecimal(amount_in, have)
        a_max == AsDecimal(max_amount_in, have)
        a_out == AsDecimal(amount_out, want)
        a_min == AsDecimal(min_amount_out, want)
        slip  == IF slippage.g THEN slippage.v ELSE DEFAULT_SLIPPAGE
    IN  IF Truthy(amount_out)
        THEN IF ~Truthy(max_amount_in)
             THEN LET min_price == DMul(price, DSub(DInt(1), slip))
                  IN  IF DIsZero(min_price) THEN Err("ZeroDivisionError")
                      ELSE Order_new("ExactOut", have, want, DDiv(a_out, min_price),
                                     a_out, slip)
             ELSE Order_new("ExactOut", have, want, a_max, a_out,
                            QuantizedSlippage(DDiv(DSub(price, DDiv(a_out, a_max)), price)))
        ELSE IF Truthy(amount_in)
        THEN IF ~Truthy(min_amount_out)
             THEN Order_new("ExactIn", have, want, a_in,
                            DMul(a_in, DMul(price, DSub(DInt(1), slip))), slip)
             ELSE Order_new("ExactIn", have, want, a_in, a_min,
                            QuantizedSlippage(DDiv(DSub(price, DDiv(a_min, a_in)), price)))
        ELSE Err("ValueError")

(***************************************************************************)
(* Order scenario: one call of create_order, or of an order class          *)
(***************************************************************************)
AmountArgs == {NoneArg, DecArg(0, 1), DecArg(4, 100), DecArg(3, 2), IntArg(0), IntArg(3)}
BoundArgs == {NoneArg, DecArg(2, 1), DecArg(1, 100)}
SlippageArgs == {NoneArg, DecArg(0, 1), DecArg(1, 2), DecArg(2, 1)}
MarketPrices == {<<1, 1>>, <<1, 2>>}

OrderCalls ==
    [fn : {"create_order", "ExactInOrder", "ExactOutOrder"},
     have : {"A"}, want : {"B"},
     amount_in : AmountArgs, amount_out : AmountArgs,
     max_amount_in : BoundArgs, min_amount_out : BoundArgs,
     slippage : SlippageArgs, price : MarketPrices]

\* a constructor call passes Decimals for the class's own fields only
DirectCall(c) ==
    /\ c.slippage.g
    /\ c.price = <<1, 1>>
    /\ \/ /\ c.fn = "ExactInOrder"
          /\ c.amount_in.g /\ c.amount_in.d /\ c.min_amount_out.g
          /\ ~c.amount_out.g /\ ~c.max_amount_in.g
       \/ /\ c.fn = "ExactOutOrder"
          /\ c.amount_out.g /\ c.amount_out.d /\ c.max_amount_in.g
          /\ ~c.amount_in.g /\ ~c.min_amount_out.g

NoCall == [fn |-> "none"]

OrderIdle ==
    /\ call = NoCall
    /\ order_res = NoResult
    /\ opc = "idle"

InitOrderCall ==
    /\ call \in {c \in OrderCalls : c.fn = "create_order" \/ DirectCall(c)}
    /\ order_res = NoResult
    /\ opc = "call"

\* Uniswap.create_order(have, want, amount_in=, amount_out=, ...)
CreateOrder ==
    /\ opc = "call"
    /\ call.fn = "create_order"
    /\ order_res' = create_order(call.have, call.want, call.amount_in, call.amount_out,
                                 call.max_amount_in, call.min_amount_out,
                                 call.slippage, call.price)
    /\ opc' = "returned"
    /\ UNCHANGED call

\* ExactInOrder(have=, want=, amount_in=, min_amount_out=, slippage=) and
\* ExactOutOrder(have=, want=, max_amount_in=, amount_out=, slippage=)
ConstructOrder ==
    /\ opc = "call"
    /\ call.fn # "create_order"
    /\ order_res' =
          IF call.fn = "ExactInOrder"
          THEN Order_new("ExactIn", call.have, call.want, call.amount_in.v,
                         call.min_amount_out.v, call.slippage.v)
          ELSE Order_new("ExactOut", call.have, call.want, call.max_amount_in.v,
                         call.amount_out.v, call.slippage.v)
    /\ opc' = "returned"
    /\ UNCHANGED call

(***************************************************************************)
(* Pools.  v3.Pool is modelled from v3.py.  A v2 pair offering the BasePair*)
(* interface (fee, key, liquidity, depth, reflexivity) and                 *)
(* v2.Factory.encode_route are not in v2.py: they follow the abstract      *)
(* declarations of types.py and the constant-product formulas of the       *)
(* specification (section 4.1).                                            *)
(***************************************************************************)
FEE_MEDIUM == 3000
FEE_HIGH == 10000
FEE_MAXIMUM == 1000000

PoolIds == {"p1", "p2", "p3", "p4", "p5", "p6", "p7", "p8", "p9", "p10"}

\* the class of each pool object: "v2" = v2.Pair, "v3" = v3.Pool
PoolType(p) == IF p \in {"p1", "p3"} THEN "v2" ELSE "v3"

\* tokens in address order; p8 joins M and N, p9 A and N, p10 B and N
token0(p) ==
    IF p \in {"p3", "p4", "p7", "p8"} THEN "M" ELSE IF p = "p10" THEN "B" ELSE "A"
token1(p) ==
    IF p \in {"p1", "p2", "p6"} THEN "M" ELSE IF p \in {"p8", "p9", "p10"} THEN "N" ELSE "B"

\* the fee of a v2 pair: the single 0.3% tier
v2_fee == FEE_MEDIUM

\* Pool.fee
fee(p) == CASE PoolType(p) = "v2" -> v2_fee
            [] p \in {"p2", "p4", "p8", "p9", "p10"} -> FEE_HIGH
            [] OTHER -> FEE_MEDIUM

\* BasePair.key
key(p) == fee(p)

\* Fee.to_decimal
fee_to_decimal(f) == Frac(f, FEE_MAXIMUM)

is_token0(p, token) == token0(p) = token
is_token1(p, token) == token1(p) = token

\* BasePair.other
other(p, token) ==
    IF is_token0(p, token) THEN Ok(token1(p))
    ELSE IF is_token1(p, token) THEN Ok(token0(p))
    ELSE Err("ValueError")

\* pair.liquidity[token]: the pool's balance of token, in whole tokens.
\* res[p] = <<balance of token0, balance of token1>> in smallest units.
liquidity(res, p, token) ==
    IF is_token0(p, token) THEN Ok(Frac(res[p][1], Pow10(decimals(token0(p)))))
    ELSE IF is_token1(p, token) THEN Ok(Frac(res[p][2], Pow10(decimals(token1(p)))))
    ELSE Err("ValueError")

\* Decimal division: x / 0 raises DivisionByZero (a ZeroDivisionError), 0 / 0
\* raises InvalidOperation; neither is a ValueError
Divide(x, y) ==
    IF ~DIsZero(y) THEN Ok(DDiv(x, y))
    ELSE IF DIsZero(x) THEN Err("InvalidOperation")
    ELSE Err("ZeroDivisionError")

\* slot0.sqrtPriceX96 ** 2 / 2 ** 192 of a v3 pool: token1 units per token0 unit;
\* a pool that was never initialized holds nothing and has sqrtPriceX96 = 0
token0_price(res, p) ==
    IF res[p] = <<0, 0>> THEN DInt(0) ELSE Frac(res[p][2], res[p][1])

\* v2.Pair.price and v3.Pool.price
price(res, p, token) ==
    IF PoolType(p) = "v2"
    THEN LET r0 == Frac(res[p][1], Pow10(decimals(token0(p))))
             r1 == Frac(res[p][2], Pow10(decimals(token1(p))))
         IN  IF is_token0(p, token) THEN Divide(r1, r0) ELSE Divide(r0, r1)
    ELSE LET conversion == Frac(Pow10(decimals(token1(p))), Pow10(decimals(token0(p))))
             p0 == token0_price(res, p)
         IN  IF is_token0(p, token) THEN Divide(p0, conversion)
             ELSE Divide(conversion, p0)

\* Decimal.sqrt of a fraction whose terms are perfect squares
RECURSIVE SqrtBetween(_, _, _)
SqrtBetween(n, lo, hi) ==
    IF lo >= hi THEN lo
    ELSE LET mid == (lo + hi + 1) \div 2
         IN  IF mid * mid <= n THEN SqrtBetween(n, mid, hi) ELSE SqrtBetween(n, lo, mid - 1)

ISqrt(n) == SqrtBetween(n, 0, Min(n, 46340))
IsSquare(n) == ISqrt(n) * ISqrt(n) = n
DSqrt(a) == Frac(ISqrt(a[1]), ISqrt(a[2]))

\* Pool.depth (the same formula for the constant-product pair)
depth(res, p, token, slippage) ==
    IF ~(DLt(DInt(0), slippage) /\ DLt(slippage, DInt(1))) THEN Err("ValueError")
    ELSE LET l == liquidity(res, p, token)
         IN  IF ~l.ok THEN l
             ELSE Ok(DMul(DDiv(l.val, DSub(DInt(1), fee_to_decimal(fee(p)))),
                          DSub(DDiv(DInt(1), DSqrt(DSub(DInt(1), slippage))), DInt(1))))

\* Pool.reflexivity (the same formula for the constant-product pair)
reflexivity(res, p, token, size) ==
    LET l == liquidity(res, p, token)
    IN  IF ~l.ok THEN l
        ELSE IF ~(DLt(DInt(0), size) /\ DLt(size, l.val)) THEN Err("ValueError")
        ELSE LET q == DDiv(l.val, DAdd(l.val,
                              DMul(DSub(DInt(1), fee_to_decimal(fee(p))), size)))
             IN  Ok(DSub(DInt(1), DMul(q, q)))

\* v3.Factory.encode_route: token, fee, token, ..., as a tuple
RECURSIVE v3_encode_route(_, _)
v3_encode_route(token, route) ==
    IF route = <<>> THEN <<address(token)>>
    ELSE LET nxt == other(Head(route), token)
         IN  IF ~nxt.ok THEN <<-1>>
             ELSE <<address(token), fee(Head(route))>> \o v3_encode_route(nxt.val, Tail(route))

\* v2.Factory.encode_route: the tokens of the route, as a tuple
RECURSIVE v2_encode_route(_, _)
v2_encode_route(token, route) ==
    IF route = <<>> THEN <<address(token)>>
    ELSE LET nxt == other(Head(route), token)
         IN  IF ~nxt.ok THEN <<-1>>
             ELSE <<address(token)>> \o v2_encode_route(nxt.val, Tail(route))

\* utils.get_total_fee
RECURSIVE fee_ratio(_)
fee_ratio(route) ==
    IF route = <<>> THEN DInt(1)
    ELSE DMul(DSub(DInt(1), Frac(fee(Head(route)), FEE_MAXIMUM)), fee_ratio(Tail(route)))

get_total_fee(route) == DSub(DInt(1), fee_ratio(route))

(***************************************************************************)
(* solver.solve: the flow graph, the min-cost flow and its decomposition.  *)
(* An order is [kind, have, want, amt_in, amt_out, slippage] with amounts  *)
(* in smallest units, as built by Order_new.                               *)
(***************************************************************************)
\* int(10_000 * x), digit by digit so that intermediate products stay small
Bips(x) ==
    LET n  == Abs(x[1])
        d  == x[2]
        q0 == n \div d
        r0 == n % d
        d1 == (10 * r0) \div d
        r1 == (10 * r0) % d
        d2 == (10 * r1) \div d
        r2 == (10 * r1) % d
        d3 == (10 * r2) \div d
        r3 == (10 * r2) % d
        d4 == (10 * r3) \div d
        m  == 10000 * q0 + 1000 * d1 + 100 * d2 + 10 * d3 + d4
    IN  IF x[1] < 0 THEN -m ELSE m

RECURSIVE Reverse(_)
Reverse(s) == IF s = <<>> THEN <<>> ELSE Append(Reverse(Tail(s)), Head(s))

\* the token the flow starts from, the token it ends at, and the demand
start_token(o) == IF o.kind = "ExactOut" THEN o.want ELSE o.have
end_token(o)   == IF o.kind = "ExactOut" THEN o.have ELSE o.want
ONE_START_TOKEN(o) == Pow10(decimals(start_token(o)))
demand_units(o) == IF o.kind = "ExactOut" THEN o.amt_out ELSE o.amt_in
demand(o) == Frac(demand_units(o), ONE_START_TOKEN(o))
routes_iter(o, rs) == IF o.kind = "ExactOut" THEN [i \in 1..Len(rs) |-> Reverse(rs[i])]
                      ELSE rs

\* G.add_edge(u, v, key=...): an existing (u, v, key) edge has its attributes replaced
add_edge(G, e) ==
    IF \E i \in 1..Len(G) : G[i].u = e.u /\ G[i].v = e.v /\ G[i].key = e.key
    THEN LET i == CHOOSE j \in 1..Len(G) :
                      G[j].u = e.u /\ G[j].v = e.v /\ G[j].key = e.key
         IN  [G EXCEPT ![i] = e]
    ELSE Append(G, e)

\* the inner loop of solve over the pairs of one route
RECURSIVE add_route(_, _, _, _, _, _)
add_route(G, res, o, route, token, pr) ==
    IF route = <<>> THEN Ok(G)
    ELSE
      LET pair == Head(route)
          liq  == liquidity(res, pair, token)
          p    == price(res, pair, token)
          nxt  == other(pair, token)
      IN  IF ~liq.ok THEN liq
          ELSE IF ~Divide(liq.val, pr).ok THEN Divide(liq.val, pr)
          ELSE IF ~p.ok /\ p.err = "ValueError" THEN Ok(G)
          ELSE IF ~p.ok THEN p
          ELSE IF ~nxt.ok THEN nxt
          ELSE
            LET price2 == DMul(pr, p.val)
                dep    == depth(res, pair, nxt.val, o.slippage)
                size   == DMul(demand(o), price2)
                refl   == reflexivity(res, pair, nxt.val, size)
            IN  IF ~dep.ok THEN dep
                ELSE IF ~Divide(dep.val, price2).ok THEN Divide(dep.val, price2)
                ELSE IF ~DLt(dep.val, size) /\ ~refl.ok THEN refl
                ELSE
                  LET e == [u        |-> address(token),
                            v        |-> address(nxt.val),
                            key      |-> key(pair),
                            capacity |-> DTrunc(DMul(DDiv(dep.val, price2),
                                                     DInt(ONE_START_TOKEN(o)))),
                            weight   |-> Bips(IF DLt(dep.val, size)
                                              THEN o.slippage ELSE refl.val),
                            pair     |-> pair]
                  IN  add_route(add_edge(G, e), res, o, Tail(route), nxt.val, price2)

\* the outer loop of solve over the candidate routes
RECURSIVE build_graph(_, _, _, _)
build_graph(G, res, o, rs) ==
    IF rs = <<>> THEN Ok(G)
    ELSE LET g == add_route(G, res, o, Head(rs), start_token(o), DInt(1))
         IN  IF ~g.ok THEN g ELSE build_graph(g.val, res, o, Tail(rs))

\* the edge paths of G from node u to node t, at most fuel edges long
RECURSIVE EdgePaths(_, _, _, _)
EdgePaths(G, u, t, fuel) ==
    IF u = t THEN {<<>>}
    ELSE IF fuel = 0 THEN {}
    ELSE UNION {{<<i>> \o q : q \in EdgePaths(G, G[i].v, t, fuel - 1)} :
                i \in {j \in 1..Len(G) : G[j].u = u}}

\* how many times the path q passes over edge i
InPath(i, q) == Cardinality({k \in 1..Len(q) : q[k] = i})

\* the flows obtained by sending, over the paths of P, amounts that add up to total
RECURSIVE PathFlows(_, _, _)
PathFlows(n, P, total) ==
    IF P = {} THEN (IF total = 0 THEN {[i \in 1..n |-> 0]} ELSE {})
    ELSE LET q == CHOOSE x \in P : TRUE
         IN  UNION {{[i \in 1..n |-> f[i] + a * InPath(i, q)] :
                        f \in PathFlows(n, P \ {q}, total - a)} : a \in 0..total}

FlowCost(G, f) == SumSeq([i \in 1..Len(G) |-> G[i].weight * f[i]])

\* mutation of FeasibleFlows: edge capacities are not enforced
FeasibleFlows_uncapped(G, o) ==
    PathFlows(Len(G),
              EdgePaths(G, address(start_token(o)), address(end_token(o)), Len(G)),
              demand_units(o))

\* the flows that meet the demand of the end node within the edge capacities
FeasibleFlows(G, o) ==
    {f \in PathFlows(Len(G),
                     EdgePaths(G, address(start_token(o)), address(end_token(o)), Len(G)),
                     demand_units(o)) :
        \A i \in 1..Len(G) : f[i] <= G[i].capacity}

\* nx.min_cost_flow(G): any feasible flow of least cost; none means NetworkXUnfeasible
min_cost_flow(G, o) ==
    LET F == FeasibleFlows(G, o)
    IN  {f \in F : \A g \in F : FlowCost(G, f) <= FlowCost(G, g)}

\* flows[u].items() then key_amount.items(): the edges leaving u, grouped by
\* neighbour in order of first insertion, keys in order of insertion
FirstTo(G, u, v) == CHOOSE i \in 1..Len(G) :
                        /\ G[i].u = u /\ G[i].v = v
                        /\ \A j \in 1..(i - 1) : ~(G[j].u = u /\ G[j].v = v)

RECURSIVE OrderedEdges(_, _, _)
OrderedEdges(G, u, S) ==
    IF S = {} THEN <<>>
    ELSE LET i == CHOOSE x \in S : \A y \in S :
                      \/ FirstTo(G, u, G[x].v) < FirstTo(G, u, G[y].v)
                      \/ FirstTo(G, u, G[x].v) = FirstTo(G, u, G[y].v) /\ x <= y
         IN  <<i>> \o OrderedEdges(G, u, S \ {i})

out_edges(G, u) == OrderedEdges(G, u, {i \in 1..Len(G) : G[i].u = u})

\* utils.convert_flows_to_routes: (route, amount) items in the order yielded;
\* fuel bounds the depth of the recursion
RECURSIVE convert_flows_to_routes(_, _, _, _, _, _)
RECURSIVE convert_edges(_, _, _, _, _, _)
convert_flows_to_routes(G, f, u, t, rev, fuel) ==
    convert_edges(G, f, out_edges(G, u), t, rev, fuel)

convert_edges(G, f, es, t, rev, fuel) ==
    IF es = <<>> THEN <<>>
    ELSE
      LET i    == Head(es)
          rest == convert_edges(G, f, Tail(es), t, rev, fuel)
          sub  == IF fuel = 0 THEN <<>>
                  ELSE convert_flows_to_routes(G, f, G[i].v, t, rev, fuel - 1)
      IN  IF f[i] = 0 THEN rest
          ELSE IF G[i].v = t
          THEN <<[route |-> <<G[i].pair>>, amount |-> f[i]]>> \o rest
          ELSE [k \in 1..Len(sub) |->
                   [route  |-> IF rev THEN Append(sub[k].route, G[i].pair)
                               ELSE <<G[i].pair>> \o sub[k].route,
                    amount |-> Min(f[i], sub[k].amount)]] \o rest

\* whether the recursion of convert_flows_to_routes from node u goes `fuel`
\* calls deep: a flow-carrying edge to a node other than t is recursed into
RECURSIVE recursion_depth_reaches(_, _, _, _, _)
recursion_depth_reaches(G, f, u, t, fuel) ==
    IF fuel = 0 THEN TRUE
    ELSE \E i \in 1..Len(G) :
            /\ G[i].u = u
            /\ f[i] # 0
            /\ G[i].v # t
            /\ recursion_depth_reaches(G, f, G[i].v, t, fuel - 1)

\* a recursion deeper than the number of edges has entered some edge twice and
\* repeats from there: the generator never finishes (RecursionError)
recurses_forever(G, f, o) ==
    recursion_depth_reaches(G, f, address(start_token(o)), address(end_token(o)),
                            Len(G) + 1)

\* dict(items): a repeated route keeps its first position and its last amount
RECURSIVE dict(_)
dict(items) ==
    IF items = <<>> THEN <<>>
    ELSE LET init == dict(SubSeq(items, 1, Len(items) - 1))
             last == items[Len(items)]
         IN  IF \E k \in 1..Len(init) : init[k].route = last.route
             THEN [k \in 1..Len(init) |->
                      IF init[k].route = last.route THEN last ELSE init[k]]
             ELSE Append(init, last)

\* mutation of solution_of: the routes of an ExactOut order are not turned round
solution_of_unreversed(G, f, o) ==
    LET items == dict(convert_flows_to_routes(G, f, address(start_token(o)),
                                              address(end_token(o)), FALSE, Len(G)))
    IN  [k \in 1..Len(items) |->
            [route  |-> items[k].route,
             amount |-> items[k].amount,
             ratio  |-> DDiv(Frac(items[k].amount, ONE_START_TOKEN(o)), demand(o))]]

\* the Solution returned by solve: route -> Decimal(amount) / ONE_START_TOKEN / demand
solution_of(G, f, o) ==
    LET items == dict(convert_flows_to_routes(G, f, address(start_token(o)),
                                              address(end_token(o)),
                                              o.kind = "ExactOut", Len(G)))
    IN  [k \in 1..Len(items) |->
            [route  |-> items[k].route,
             amount |-> items[k].amount,
             ratio  |-> DDiv(Frac(items[k].amount, ONE_START_TOKEN(o)), demand(o))]]

(***************************************************************************)
(* solver.convert_solution_to_plan                                         *)
(***************************************************************************)
MSG_SENDER == 1

\* mutation of all_v3: one v3 pool is enough
all_v3_any(route) == \E k \in 1..Len(route) : PoolType(route[k]) = "v3"

all_v3(route) == \A k \in 1..Len(route) : PoolType(route[k]) = "v3"
all_v2(route) == \A k \in 1..Len(route) : PoolType(route[k]) = "v2"

\* int(total * flow_ratio * ONE) for a total held in smallest units
route_amount(total_units, one, flow_ratio) ==
    DTrunc(DMul(DMul(Frac(total_units, one), flow_ratio), DInt(one)))

\* mutation of swap_step: the V2 command whatever the pools of the route
swap_step_v2_only(o, item) ==
    Command_new(IF o.kind = "ExactIn" THEN V2_SWAP_EXACT_IN ELSE V2_SWAP_EXACT_OUT,
                <<WordV(MSG_SENDER),
                  WordV(item.amount),
                  WordV(0), TupleV(v2_encode_route(o.have, item.route)), WordV(1)>>,
                "tuple", FALSE)

\* the command added for one (route, flow_ratio) item
swap_step(o, item) ==
    LET use_exact_in == o.kind = "ExactIn"
        amount_in_route  == route_amount(o.amt_in, Pow10(decimals(o.have)), item.ratio)
        amount_out_route == route_amount(o.amt_out, Pow10(decimals(o.want)), item.ratio)
        first_amount  == IF use_exact_in THEN amount_in_route ELSE amount_out_route
        second_amount == IF use_exact_in THEN amount_out_route ELSE amount_in_route
        swap_args(path) == <<WordV(MSG_SENDER), WordV(first_amount), WordV(second_amount),
                             TupleV(path), WordV(1)>>
    IN  IF all_v3(item.route)
        THEN Command_new(IF use_exact_in THEN V3_SWAP_EXACT_IN ELSE V3_SWAP_EXACT_OUT,
                         swap_args(v3_encode_route(o.have, item.route)), "tuple", FALSE)
        ELSE IF all_v2(item.route)
        THEN Command_new(IF use_exact_in THEN V2_SWAP_EXACT_IN ELSE V2_SWAP_EXACT_OUT,
                         swap_args(v2_encode_route(o.have, item.route)), "tuple", FALSE)
        ELSE Err("ValueError")

\* the loop over solution.items(), extending plan
RECURSIVE swap_steps(_, _, _)
swap_steps(o, sol, plan) ==
    IF sol = <<>> THEN Ok(plan)
    ELSE LET c == swap_step(o, Head(sol))
         IN  IF ~c.ok THEN c ELSE swap_steps(o, Tail(sol), Append(plan, c.val))

\* a PERMIT2_PERMIT command handed over as permit_step
PermitStep == Cmd(PERMIT2_PERMIT, <<TupleV(<<3, 1, 1, 0>>), WordV(2), WordV(1)>>, FALSE)

\* a variant that adds the permit step after the swaps
convert_solution_to_plan_permit_last(o, sol, permit_step) ==
    LET r == swap_steps(o, sol, <<>>)
    IN  IF r.ok /\ permit_step THEN Ok(Append(r.val, PermitStep)) ELSE r

convert_solution_to_plan(o, sol, permit_step) ==
    swap_steps(o, sol, IF permit_step THEN <<PermitStep>> ELSE <<>>)

(***************************************************************************)
(* The solver scenario: an order and candidate routes over the pools are   *)
(* given; solve runs, then convert_solution_to_plan compiles its Solution. *)
(* Demands are powers of two and slippages leave 1 - slippage a perfect    *)
(* square, so that every Decimal quotient and square root taken is exact.  *)
(***************************************************************************)
MaxRoutes == 2
MaxDemandExp == 2
LimitScale == 100

RECURSIVE Pow2(_)
Pow2(k) == IF k = 0 THEN 1 ELSE 2 * Pow2(k - 1)

DemandChoices == {Pow2(k) : k \in 0..MaxDemandExp}
SlippageChoices == {<<9, 25>>, <<3, 4>>}
ReserveLevels == {4, 8}

\* candidate routes, have token first: two-hop v2, two two-hop v3 routes over
\* different pools, direct v3, and a mixed route; p6 has the fee of the v2 pair p1
AllRoutes == {<<"p1", "p3">>, <<"p2", "p4">>, <<"p6", "p7">>, <<"p5">>, <<"p1", "p4">>}

RouteLists == UNION {{rs \in [1..n -> AllRoutes] :
                         \A i, j \in 1..n : i # j => rs[i] # rs[j]} : n \in 1..MaxRoutes}

PoolsOf(rs) == UNION {{rs[i][k] : k \in 1..Len(rs[i])} : i \in 1..Len(rs)}

\* orders as Order_new stores them: the exact side is the demand, the other
\* side (min_amount_out / max_amount_in) is LimitScale times as many units
SolverOrders ==
    {[kind |-> kd, have |-> "A", want |-> "B",
      amt_in  |-> IF kd = "ExactIn" THEN d ELSE LimitScale * d,
      amt_out |-> IF kd = "ExactIn" THEN LimitScale * d ELSE d,
      slippage |-> sl] :
        kd \in {"ExactIn", "ExactOut"}, d \in DemandChoices, sl \in SlippageChoices}

NoPlan == [ok |-> FALSE, val |-> <<>>, err |-> "none"]

SolverIdle ==
    /\ order = <<>>
    /\ routes = <<>>
    /\ reserves = <<>>
    /\ graph = <<>>
    /\ flows = <<>>
    /\ solution = <<>>
    /\ solve_res = "none"
    /\ permit = FALSE
    /\ plan_res = NoPlan
    /\ spc = "idle"

InitSolverCall ==
    /\ order \in SolverOrders
    /\ routes \in RouteLists
    /\ reserves \in [PoolIds -> {<<l, l>> : l \in ReserveLevels}]
    /\ \A p \in PoolIds \ PoolsOf(routes) : reserves[p] = <<8, 8>>
    /\ graph = <<>>
    /\ flows = <<>>
    /\ solution = <<>>
    /\ solve_res = "none"
    /\ permit = FALSE
    /\ plan_res = NoPlan
    /\ spc = "start"

\* Candidate routes that cross the pool p8 (M-N) in opposite directions:
\* A -> M -> N -> B and A -> N -> M -> B.  The order's slippage is below one
\* bip, 1 - (20000/20001)^2, and the pools are large enough that their depth
\* at that slippage is one or two units of the demand.
CycleRoutes == {<<"p2", "p8", "p10">>, <<"p9", "p8", "p4">>}
CycleDemand == 2
CycleSlippage == <<40001, 400040001>>
UnitReserve == 19800
CycleReserveLevels == {UnitReserve, 2 * UnitReserve}

CycleOrders ==
    {[kind |-> kd, have |-> "A", want |-> "B",
      amt_in  |-> IF kd = "ExactIn" THEN CycleDemand ELSE LimitScale * CycleDemand,
      amt_out |-> IF kd = "ExactIn" THEN LimitScale * CycleDemand ELSE CycleDemand,
      slippage |-> CycleSlippage] : kd \in {"ExactIn", "ExactOut"}}

CycleRouteLists ==
    UNION {{rs \in [1..n -> CycleRoutes] : \A i, j \in 1..n : i # j => rs[i] # rs[j]} :
              n \in 1..2}

InitCycleCall ==
    /\ order \in CycleOrders
    /\ routes \in CycleRouteLists
    /\ reserves \in [PoolIds -> {<<l, l>> : l \in CycleReserveLevels \cup {8}}]
    /\ \A p \in PoolIds : reserves[p] = <<8, 8>> <=> p \notin PoolsOf(routes)
    /\ reserves["p8"] = <<UnitReserve, UnitReserve>>
    /\ graph = <<>>
    /\ flows = <<>>
    /\ solution = <<>>
    /\ solve_res = "none"
    /\ permit = FALSE
    /\ plan_res = NoPlan
    /\ spc = "start"

\* a pool that was never initialized: no reserves, and for v3 a zero price
Uninitialized(res, p) == res[p] = <<0, 0>>

\* the calls of InitSolverCall, with at most one pool of the candidate routes
\* uninitialized
InitUninitCall ==
    /\ order \in SolverOrders
    /\ routes \in RouteLists
    /\ \E base \in [PoolIds -> {<<l, l>> : l \in ReserveLevels}] :
          /\ \A p \in PoolIds \ PoolsOf(routes) : base[p] = <<8, 8>>
          /\ \/ reserves = base
             \/ \E z \in PoolsOf(routes) :
                   base[z] = <<8, 8>> /\ reserves = [base EXCEPT ![z] = <<0, 0>>]
    /\ graph = <<>>
    /\ flows = <<>>
    /\ solution = <<>>
    /\ solve_res = "none"
    /\ permit = FALSE
    /\ plan_res = NoPlan
    /\ spc = "start"

\* solver.solve(order, routes)
Solve ==
    /\ spc = "start"
    /\ \E g \in {build_graph(<<>>, reserves, order, routes_iter(order, routes))} :
       \E optimal \in {IF g.ok THEN min_cost_flow(g.val, order) ELSE {}} :
           IF ~g.ok
           THEN /\ graph' = <<>> /\ flows' = <<>> /\ solution' = <<>>
                /\ solve_res' = g.err /\ spc' = "failed"
           ELSE IF optimal = {}
           THEN /\ graph' = g.val /\ flows' = <<>> /\ solution' = <<>>
                /\ solve_res' = "RuntimeError" /\ spc' = "failed"
           ELSE \E f \in optimal :
                /\ graph' = g.val /\ flows' = f
                /\ IF recurses_forever(g.val, f, order)
                   THEN /\ solution' = <<>>
                        /\ solve_res' = "RecursionError" /\ spc' = "failed"
                   ELSE /\ solution' = solution_of(g.val, f, order)
                        /\ solve_res' = "ok" /\ spc' = "solved"
    /\ UNCHANGED <<order, routes, reserves, permit, plan_res>>

\* solver.convert_solution_to_plan(order, solution, permit_step)
Compile ==
    /\ spc = "solved"
    /\ \E pm \in BOOLEAN :
          /\ permit' = pm
          /\ plan_res' = convert_solution_to_plan(order, solution, pm)
    /\ spc' = "compiled"
    /\ UNCHANGED <<order, routes, reserves, graph, flows, solution, solve_res>>

(***************************************************************************)
(* Managed liquidity.  A v3 pool reads its liquidity from the chain (the   *)
(* pool's token balances) until the indexer replaces pool.liquidity by a   *)
(* _ManagedLiquidity, whose reserves sync_pool_liquidity updates from the  *)
(* pool's Swap logs.                                                       *)
(***************************************************************************)
MaxBalance == 3
MaxLogs == 1

V3Pools == {p \in PoolIds : PoolType(p) = "v3"}
Ticks == {0, 60}

\* (amount0, amount1) of a Swap log: what the pool received of each token,
\* negative for what it paid out
SwapAmounts == {<<1, -1>>, <<-1, 1>>, <<2, -1>>, <<-1, 2>>}

\* Liquidity.__getitem__: the pool's balance of the token, in whole tokens
live_liquidity(chain, p, token) ==
    IF is_token0(p, token)
    THEN Ok(Frac(chain.balance0, Pow10(decimals(token0(p)))))
    ELSE IF is_token1(p, token)
    THEN Ok(Frac(chain.balance1, Pow10(decimals(token1(p)))))
    ELSE Err("ValueError")

\* _ManagedLiquidity.__getitem__: both branches divide by token1's decimals
managed_liquidity(m, p, token) ==
    IF is_token0(p, token)
    THEN Ok(Frac(m.reserve0, Pow10(decimals(token1(p)))))
    ELSE IF is_token1(p, token)
    THEN Ok(Frac(m.reserve1, Pow10(decimals(token1(p)))))
    ELSE Err("ValueError")

NoManaged == [reserve0 |-> 0, reserve1 |-> 0, current_tick |-> "unset"]

LiqIdle ==
    /\ lq_pool = "none"
    /\ lq_chain = <<>>
    /\ lq_managed = NoManaged
    /\ lq_logs = <<>>
    /\ lq_pc = "idle"

InitLiquidity ==
    /\ lq_pool \in V3Pools
    /\ lq_chain \in [balance0 : 1..MaxBalance, balance1 : 1..MaxBalance, tick : Ticks]
    /\ lq_managed = NoManaged
    /\ lq_logs = <<>>
    /\ lq_pc = "live"

\* pool.liquidity = _ManagedLiquidity(pool): no reserves are passed, so both
\* are read from the token balances
ManagePool ==
    /\ lq_pc = "live"
    /\ lq_managed' = [reserve0 |-> lq_chain.balance0,
                      reserve1 |-> lq_chain.balance1,
                      current_tick |-> "unset"]
    /\ lq_pc' = "managed"
    /\ UNCHANGED <<lq_pool, lq_chain, lq_logs>>

\* a swap on the pool: the balances move by the amounts the Swap log reports
ChainSwap ==
    /\ lq_pc \in {"live", "managed"}
    /\ lq_pc = "managed" => Len(lq_logs) < MaxLogs
    /\ \E a \in SwapAmounts, t \in Ticks :
          /\ lq_chain.balance0 + a[1] \in 0..MaxBalance
          /\ lq_chain.balance1 + a[2] \in 0..MaxBalance
          /\ lq_chain' = [balance0 |-> lq_chain.balance0 + a[1],
                          balance1 |-> lq_chain.balance1 + a[2],
                          tick |-> t]
          /\ lq_logs' = IF lq_pc = "managed"
                        THEN Append(lq_logs, [amount0 |-> a[1], amount1 |-> a[2], tick |-> t])
                        ELSE lq_logs
    /\ UNCHANGED <<lq_pool, lq_managed, lq_pc>>

\* sync_pool_liquidity(log)
SyncPoolLiquidity ==
    /\ lq_pc = "managed"
    /\ lq_logs # <<>>
    /\ LET log == Head(lq_logs)
       IN  lq_managed' = [reserve0 |-> lq_managed.reserve0 + log.amount0,
                          reserve1 |-> lq_managed.reserve1 + log.amount1,
                          current_tick |-> log.tick]
    /\ lq_logs' = Tail(lq_logs)
    /\ UNCHANGED <<lq_pool, lq_chain, lq_pc>>

(***************************************************************************)
(* EXECUTE_SUB_PLAN.  The command holds the command bytes of a sub-plan in *)
(* args[0] and its argument strings in args[1]; add_step and rm_step edit  *)
(* the two in place.                                                       *)
(***************************************************************************)
MaxSubPlan == 3

\* commands a sub-plan is made of
SubSteps ==
    { Cmd(WRAP_ETH, <<WordV(1), WordV(5)>>, FALSE),
      Cmd(WRAP_ETH, <<WordV(2), WordV(300)>>, FALSE),
      Cmd(V2_SWAP_EXACT_IN, <<WordV(1), WordV(7), WordV(3), ListV(<<3, 4>>), WordV(1)>>, FALSE) }

SubPlans == UNION {[1..n -> SubSteps] : n \in 0..MaxSubPlan}

\* EXECUTE_SUB_PLAN.encode_sub_plan of a Plan
encode_sub_plan(plan) == <<encoded_commands(plan), Plan_encode_args(plan).val>>

\* bytes += int: bytes has no concatenation with an int
bytes_iadd_int(b, n) == Err("TypeError")

\* list.poplast(): the list type has no such method
list_poplast(l) == Err("AttributeError")

\* EXECUTE_SUB_PLAN.add_step(command): the args after the call and its error
add_step(args, command) ==
    LET a0 == bytes_iadd_int(args[1], command_byte(command))
        a1 == encode_args(command)
    IN  IF ~a0.ok THEN [args |-> args, err |-> a0.err]
        ELSE IF ~a1.ok THEN [args |-> <<a0.val, args[2]>>, err |-> a1.err]
        ELSE [args |-> <<a0.val, Append(args[2], a1.val)>>, err |-> "none"]

\* EXECUTE_SUB_PLAN.rm_step(): args[0] is cut before args[1].poplast() is tried
rm_step(args) ==
    IF Len(args[1]) = 0 THEN [args |-> args, err |-> "ValueError"]
    ELSE LET a0 == SubSeq(args[1], 1, Len(args[1]) - 1)
             a1 == list_poplast(args[2])
         IN  IF ~a1.ok THEN [args |-> <<a0, args[2]>>, err |-> a1.err]
             ELSE [args |-> <<a0, a1.val>>, err |-> "none"]

SubIdle ==
    /\ sub_args = <<>>
    /\ sub_err = "idle"

\* EXECUTE_SUB_PLAN(args=plan)
InitSubPlan ==
    /\ \E plan \in SubPlans : sub_args = encode_sub_plan(plan)
    /\ sub_err = "none"

AddStep ==
    /\ sub_err # "idle"
    /\ \E c \in SubSteps :
          LET r == add_step(sub_args, c)
          IN  sub_args' = r.args /\ sub_err' = r.err

RmStep ==
    /\ sub_err # "idle"
    /\ LET r == rm_step(sub_args)
       IN  sub_args' = r.args /\ sub_err' = r.err

(***************************************************************************)
(* Uniswap.solve, create_plan and swap (main.py): the caller may pass its  *)
(* own routes; otherwise the routes come from the indexers (find_routes).  *)
(***************************************************************************)
\* utils.get_liquidity(token, route); liq = <<>> stands for Decimal("inf")
RECURSIVE get_liquidity_from(_, _, _, _, _)
get_liquidity_from(res, route, token, pr, liq) ==
    IF route = <<>> THEN IF liq = <<>> THEN Err("AssertionError") ELSE Ok(liq)
    ELSE
      LET pair == Head(route)
          l    == liquidity(res, pair, token)
          q    == IF l.ok THEN Divide(l.val, pr) ELSE l
          p    == price(res, pair, token)
          nxt  == other(pair, token)
      IN  IF ~q.ok THEN q
          ELSE IF ~p.ok /\ p.err = "ValueError" THEN Ok(DInt(0))
          ELSE IF ~p.ok THEN p
          ELSE IF ~nxt.ok THEN nxt
          ELSE get_liquidity_from(res, Tail(route), nxt.val, DMul(pr, p.val),
                                  IF liq = <<>> \/ DLt(q.val, liq) THEN q.val ELSE liq)

get_liquidity(res, token, route) == get_liquidity_from(res, route, token, DInt(1), <<>>)

\* utils.get_price(token, route)
RECURSIVE get_price_from(_, _, _, _)
get_price_from(res, route, token, pr) ==
    IF route = <<>> THEN Ok(pr)
    ELSE LET p   == price(res, Head(route), token)
             nxt == other(Head(route), token)
         IN  IF ~p.ok THEN p
             ELSE IF ~nxt.ok THEN nxt
             ELSE get_price_from(res, Tail(route), nxt.val, DMul(pr, p.val))

get_price(res, token, route) == get_price_from(res, route, token, DInt(1))

\* Uniswap.find_routes(have, want): the routes the indexers hold for the pair
find_routes(idx, have, want) == idx

\* Uniswap.price(base, quote): the liquidity-weighted price over the indexed
\* routes that hold at least min_liquidity = 1 token
RECURSIVE price_over(_, _, _, _, _)
price_over(res, rs, base, price_quotient, total_liquidity) ==
    IF rs = <<>>
    THEN IF DIsZero(total_liquidity) THEN Err("RuntimeError")
         ELSE Ok(DDiv(price_quotient, total_liquidity))
    ELSE LET l == get_liquidity(res, base, Head(rs))
             p == get_price(res, base, Head(rs))
         IN  IF ~l.ok THEN l
             ELSE IF DLt(l.val, DInt(1))
             THEN price_over(res, Tail(rs), base, price_quotient, total_liquidity)
             ELSE IF ~p.ok THEN p
             ELSE price_over(res, Tail(rs), base,
                             DAdd(price_quotient, DMul(p.val, l.val)),
                             DAdd(total_liquidity, l.val))

Uniswap_price(res, idx, base, quote) ==
    price_over(res, find_routes(idx, base, quote), base, DInt(0), DInt(0))

PERMIT2_PERMIT_BATCH == 3

\* Permit2.sign_permit: the command is built from two arguments, the tuple
\* (details, spender, sigDeadline) and the signature
sign_permit ==
    Command_new(PERMIT2_PERMIT, <<TupleV(<<3, 1, 1, 0, 2, 1>>), BytesV(<<27>>)>>, "list", FALSE)

\* Permit2.sign_permit_batch: likewise, with a list of details
sign_permit_batch ==
    Command_new(PERMIT2_PERMIT_BATCH, <<TupleV(<<3, 1, 1, 0, 2, 1>>), BytesV(<<27>>)>>, "list", FALSE)

\* self.solver(order, rs): the graph, flow, Solution and outcome of solver.solve
Solved(rs, G, f, sol, res) ==
    \E g \in {build_graph(<<>>, reserves, order, routes_iter(order, rs))} :
    \E optimal \in {IF g.ok THEN min_cost_flow(g.val, order) ELSE {}} :
        IF ~g.ok
        THEN G = <<>> /\ f = <<>> /\ sol = <<>> /\ res = g.err
        ELSE IF optimal = {}
        THEN G = g.val /\ f = <<>> /\ sol = <<>> /\ res = "RuntimeError"
        ELSE \E fl \in optimal :
             /\ G = g.val /\ f = fl
             /\ IF recurses_forever(g.val, fl, order)
                THEN sol = <<>> /\ res = "RecursionError"
                ELSE sol = solution_of(g.val, fl, order) /\ res = "ok"

\* Uniswap.solve(order, routes): the solver gets routes, or what find_routes
\* yields when routes is None or empty
UniswapSolveCall(routes_arg) ==
    LET rs == IF routes_arg # <<>> THEN routes_arg
              ELSE find_routes(indexed, order.have, order.want)
    IN  /\ consulted' = (routes_arg = <<>>)
        /\ routes' = rs
        /\ Solved(rs, graph', flows', solution', solve_res')

\* the call raises before the solver is reached
RaisedBeforeSolve(e) ==
    /\ call_res' = e
    /\ consulted' = FALSE
    /\ plan_res' = NoPlan
    /\ UNCHANGED <<routes, graph, flows, solution, solve_res>>

\* Uniswap.create_plan(order, routes, permit_step): after the market price is
\* read, the routes are handed to self.solve under the keyword `route`, which
\* solve collects in **order_kwargs: its routes parameter stays None
CreatePlanCall(routes_arg, permit_step) ==
    /\ permit' = permit_step
    /\ LET mp == Uniswap_price(reserves, indexed, order.have, order.want)
       IN  IF ~mp.ok THEN RaisedBeforeSolve(mp.err)
           ELSE /\ UniswapSolveCall(<<>>)
                /\ plan_res' = IF solve_res' = "ok"
                               THEN convert_solution_to_plan(order, solution', permit_step)
                               ELSE NoPlan
                /\ call_res' = IF solve_res' # "ok" THEN solve_res'
                               ELSE IF plan_res'.ok THEN "ok" ELSE plan_res'.err

\* the amount Permit2 must be allowed to spend
permit_amount(o) == Frac(o.amt_in, Pow10(decimals(o.have)))

NoSender == [account |-> FALSE, allowance |-> 0]
Allowances == {0, 1000}
Senders == {NoSender} \cup {[account |-> TRUE, allowance |-> a] : a \in Allowances}

ExplicitChoices ==
    {<<>>, <<<<"p5">>>>, <<<<"p2", "p4">>>>, <<<<"p1", "p3">>, <<"p2", "p4">>>>}
IndexedChoices ==
    {<<>>, <<<<"p5">>>>, <<<<"p2", "p4">>>>, <<<<"p6", "p7">>, <<"p5">>>>}

CallIdle ==
    /\ explicit = <<>>
    /\ indexed = <<>>
    /\ sender = NoSender
    /\ consulted = FALSE
    /\ call_res = "none"

InitCall ==
    /\ order \in SolverOrders
    /\ explicit \in ExplicitChoices
    /\ indexed \in IndexedChoices
    /\ sender \in Senders
    /\ \E l \in ReserveLevels : reserves = [p \in PoolIds |-> <<l, l>>]
    /\ routes = <<>>
    /\ graph = <<>>
    /\ flows = <<>>
    /\ solution = <<>>
    /\ solve_res = "none"
    /\ permit = FALSE
    /\ plan_res = NoPlan
    /\ consulted = FALSE
    /\ call_res = "none"
    /\ spc = "call"

\* Uniswap.solve(order=order, routes=explicit)
UniswapSolve ==
    /\ spc = "call"
    /\ UniswapSolveCall(explicit)
    /\ call_res' = solve_res'
    /\ spc' = "solve returned"
    /\ UNCHANGED <<order, reserves, permit, plan_res, explicit, indexed, sender>>

\* Uniswap.create_plan(order=order, routes=explicit, permit_step=...)
CreatePlan ==
    /\ spc = "call"
    /\ \E pm \in BOOLEAN : CreatePlanCall(explicit, pm)
    /\ spc' = "create_plan returned"
    /\ UNCHANGED <<order, reserves, explicit, indexed, sender>>

\* Uniswap.swap(order=order, routes=explicit, sender=sender), up to the plan:
\* the permit step is signed when the sender is an account whose Permit2
\* allowance covers the amount
Swap ==
    /\ spc = "call"
    /\ IF ~sender.account \/ DLt(DInt(sender.allowance), permit_amount(order))
       THEN CreatePlanCall(explicit, FALSE)
       ELSE IF ~sign_permit.ok
       THEN permit' = FALSE /\ RaisedBeforeSolve(sign_permit.err)
       ELSE CreatePlanCall(explicit, TRUE)
    /\ spc' = "swap returned"
    /\ UNCHANGED <<order, reserves, explicit, indexed, sender>>

ExtIdle == LiqIdle /\ CallIdle /\ SubIdle

(***************************************************************************)
(* Specifications                                                          *)
(***************************************************************************)
InitCodec == CodecIdle /\ cpc = "build" /\ OrderIdle /\ SolverIdle /\ ExtIdle

NextCodec ==
    \/ PlanAdd /\ UNCHANGED <<order_vars, solver_vars, ext_vars>>
    \/ PlanBuilder /\ UNCHANGED <<order_vars, solver_vars, ext_vars>>
    \/ PlanEncode /\ UNCHANGED <<order_vars, solver_vars, ext_vars>>
    \/ ReceiveAltered /\ UNCHANGED <<order_vars, solver_vars, ext_vars>>
    \/ PlanDecode /\ UNCHANGED <<order_vars, solver_vars, ext_vars>>
    \/ PlanReEncode /\ UNCHANGED <<order_vars, solver_vars, ext_vars>>

SpecCodec == InitCodec /\ [][NextCodec]_vars

InitOrder == CodecIdle /\ cpc = "idle" /\ InitOrderCall /\ SolverIdle /\ ExtIdle

NextOrder ==
    \/ CreateOrder /\ UNCHANGED <<codec_vars, solver_vars, ext_vars>>
    \/ ConstructOrder /\ UNCHANGED <<codec_vars, solver_vars, ext_vars>>

SpecOrder == InitOrder /\ [][NextOrder]_vars

InitSolver == CodecIdle /\ cpc = "idle" /\ OrderIdle /\ InitSolverCall /\ ExtIdle

NextSolver ==
    \/ Solve /\ UNCHANGED <<codec_vars, order_vars, ext_vars>>
    \/ Compile /\ UNCHANGED <<codec_vars, order_vars, ext_vars>>

SpecSolver == InitSolver /\ [][NextSolver]_vars

InitCycle == CodecIdle /\ cpc = "idle" /\ OrderIdle /\ InitCycleCall /\ ExtIdle

SpecCycle == InitCycle /\ [][NextSolver]_vars

InitUninit == CodecIdle /\ cpc = "idle" /\ OrderIdle /\ InitUninitCall /\ ExtIdle

SpecUninit == InitUninit /\ [][NextSolver]_vars

InitLiq == CodecIdle /\ cpc = "idle" /\ OrderIdle /\ SolverIdle /\ InitLiquidity /\ CallIdle /\ SubIdle

NextLiq ==
    \/ ManagePool /\ UNCHANGED <<codec_vars, order_vars, solver_vars, call_vars, sub_vars>>
    \/ ChainSwap /\ UNCHANGED <<codec_vars, order_vars, solver_vars, call_vars, sub_vars>>
    \/ SyncPoolLiquidity /\ UNCHANGED <<codec_vars, order_vars, solver_vars, call_vars, sub_vars>>

SpecLiq == InitLiq /\ [][NextLiq]_vars

InitSub == CodecIdle /\ cpc = "idle" /\ OrderIdle /\ SolverIdle /\ LiqIdle /\ CallIdle /\ InitSubPlan

NextSub ==
    \/ AddStep /\ UNCHANGED <<codec_vars, order_vars, solver_vars, liq_vars, call_vars>>
    \/ RmStep /\ UNCHANGED <<codec_vars, order_vars, solver_vars, liq_vars, call_vars>>

SpecSub == InitSub /\ [][NextSub]_vars

InitUniswap == CodecIdle /\ cpc = "idle" /\ OrderIdle /\ InitCall /\ LiqIdle /\ SubIdle

NextUniswap ==
    \/ UniswapSolve /\ UNCHANGED <<codec_vars, order_vars, liq_vars, sub_vars>>
    \/ CreatePlan /\ UNCHANGED <<codec_vars, order_vars, liq_vars, sub_vars>>
    \/ Swap /\ UNCHANGED <<codec_vars, order_vars, liq_vars, sub_vars>>

SpecUniswap == InitUniswap /\ [][NextUniswap]_vars

(***************************************************************************)
(* Claims about the codec (SpecCodec)                                      *)
(***************************************************************************)
\* C1: decoding a plan's own encoding returns the plan that was encoded,
\* command for command, whether a command's allow_revert flag is set or not.
C1_RoundTrip ==
    (cpc = "decoded" /\ tamper = "none") => (decoded.ok /\ decoded.val = commands)

\* C2: re-encoding the plan decoded from a (command bytes, argument byte
\* strings) pair gives back exactly the pair that was decoded.
C2_ReEncodeExact ==
    cpc = "done" =>
        /\ reenc.cmds = wire.cmds
        /\ reenc.args.ok
        /\ reenc.args.val = wire.args

(***************************************************************************)
(* Claims about order construction (SpecOrder)                             *)
(***************************************************************************)
\* C9: every order that is constructed stores amounts strictly greater than
\* zero, after the amounts were quantized to the tokens' decimals.
C9_StoredAmountsPositive ==
    (opc = "returned" /\ order_res.ok) =>
        (order_res.val.amt_in > 0 /\ order_res.val.amt_out > 0)

\* C10: create_order returns an order only when exactly one of amount_in and
\* amount_out was given, a given zero counting as given.
C10_ExactlyOneGiven ==
    (opc = "returned" /\ call.fn = "create_order" /\ order_res.ok) =>
        (call.amount_in.g # call.amount_out.g)

(***************************************************************************)
(* Claims about solve and convert_solution_to_plan (SpecSolver)            *)
(***************************************************************************)
RECURSIVE SumRatios(_)
SumRatios(sol) == IF sol = <<>> THEN DInt(0)
                  ELSE DAdd(Head(sol).ratio, SumRatios(Tail(sol)))

\* C3: the flow fractions of the routes of every Solution that solve returns
\* sum to exactly 1, also when flows merge at a token and split again.
C3_FractionsSumToOne ==
    spc = "solved" => SumRatios(solution) = DInt(1)

\* what the edges of G can carry from the start token to the end token: the
\* least capacity of a cut between them
Nodes(G, o) == {G[i].u : i \in 1..Len(G)} \cup {G[i].v : i \in 1..Len(G)}
                  \cup {address(start_token(o)), address(end_token(o))}
CutCapacity(G, S) ==
    SumSeq([i \in 1..Len(G) |->
               IF G[i].u \in S /\ G[i].v \notin S THEN G[i].capacity ELSE 0])
Carry(G, o) ==
    LET cuts == {S \in SUBSET Nodes(G, o) :
                    address(start_token(o)) \in S /\ address(end_token(o)) \notin S}
    IN  CHOOSE c \in {CutCapacity(G, S) : S \in cuts} :
            \A S \in cuts : c <= CutCapacity(G, S)

\* C4: when the demand exceeds what the edge capacities can carry from the
\* start token to the end token, solve fails (with RuntimeError once the graph
\* is built) and returns no Solution, not even one for a part of the demand.
C4_InfeasibleFails ==
    (spc # "start" /\ Carry(graph, order) < demand_units(order)) =>
        /\ spc = "failed"
        /\ solve_res # "ok"
        /\ graph # <<>> => solve_res = "RuntimeError"
        /\ solution = <<>>

C4_Witness ==
    /\ spc = "failed"
    /\ solve_res = "RuntimeError"
    /\ Len(graph) >= 2
    /\ Carry(graph, order) > 0
    /\ Carry(graph, order) < demand_units(order)

\* the kind of pool a route is made of, if it is made of one kind only
OnlyOf(route, type) == \A k \in 1..Len(route) : PoolType(route[k]) = type

\* the swap opcode the order kind and the pools of a route call for
ExpectedSwap(o, route) ==
    IF OnlyOf(route, "v3")
    THEN (IF o.kind = "ExactIn" THEN V3_SWAP_EXACT_IN ELSE V3_SWAP_EXACT_OUT)
    ELSE (IF o.kind = "ExactIn" THEN V2_SWAP_EXACT_IN ELSE V2_SWAP_EXACT_OUT)

PlanOffset == IF permit THEN 1 ELSE 0

\* C5: the compiled Plan holds, after the optional permit step, exactly one
\* swap command per route of the Solution, in Solution order (the k-th command
\* carries the k-th route's share of the demand and a path of its length): a V3
\* swap for a route of v3 pools, a V2 swap for a route of v2 pairs, EXACT_IN for
\* an ExactInOrder and EXACT_OUT for an ExactOutOrder.
C5_OneSwapPerRoute ==
    (spc = "compiled" /\ plan_res.ok) =>
        /\ Len(plan_res.val) = PlanOffset + Len(solution)
        /\ \A k \in 1..Len(solution) :
              LET cmd == plan_res.val[PlanOffset + k]
                  r   == solution[k].route
              IN  /\ OnlyOf(r, "v3") \/ OnlyOf(r, "v2")
                  /\ cmd.type = ExpectedSwap(order, r)
                  /\ cmd.args[2] = WordV(solution[k].amount)
                  /\ Len(cmd.args[4].v) = IF OnlyOf(r, "v3") THEN 2 * Len(r) + 1 ELSE Len(r) + 1

C5_Witness ==
    /\ spc = "compiled"
    /\ plan_res.ok
    /\ permit
    /\ order.kind = "ExactOut"
    /\ Len(solution) = 2
    /\ \E j, k \in 1..2 : OnlyOf(solution[j].route, "v3") /\ OnlyOf(solution[k].route, "v2")

\* C6: in the compiled Plan each route's input amount is the order's total
\* input times the route's fraction, and its output amount is the order's total
\* output times the fraction, reduced by the route's cumulative fee ratio
\* 1 - product over hops of (1 - fee).
C6_RouteAmounts ==
    (spc = "compiled" /\ plan_res.ok) =>
        \A k \in 1..Len(solution) :
            LET cmd == plan_res.val[PlanOffset + k]
                amount_in  == DTrunc(DMul(DInt(order.amt_in), solution[k].ratio))
                amount_out == DTrunc(DMul(DMul(DInt(order.amt_out), solution[k].ratio),
                                          DSub(DInt(1), get_total_fee(solution[k].route))))
            IN  IF order.kind = "ExactIn"
                THEN cmd.args[2] = WordV(amount_in) /\ cmd.args[3] = WordV(amount_out)
                ELSE cmd.args[2] = WordV(amount_out) /\ cmd.args[3] = WordV(amount_in)

Mixed(route) ==
    \E j, k \in 1..Len(route) : PoolType(route[j]) = "v2" /\ PoolType(route[k]) = "v3"

\* C7: compiling a Solution that holds a route mixing v2 pairs and v3 pools
\* fails with an error and yields no Plan, wherever that route stands.
C7_MixedRouteFails ==
    (spc = "compiled" /\ \E k \in 1..Len(solution) : Mixed(solution[k].route)) =>
        (~plan_res.ok /\ plan_res.err = "ValueError" /\ plan_res.val = <<>>)

C7_Witness ==
    /\ spc = "compiled"
    /\ Len(solution) >= 2
    /\ ~Mixed(solution[1].route)
    /\ \E k \in 2..Len(solution) : Mixed(solution[k].route)
    /\ ~plan_res.ok

\* C8: when every candidate route given to solve is all v2 or all v3, so is
\* every route of the Solution it returns.
C8_HomogeneousSolution ==
    (spc = "solved" /\ \A i \in 1..Len(routes) : ~Mixed(routes[i])) =>
        \A k \in 1..Len(solution) : ~Mixed(solution[k].route)

\* C11: every Order returned by create_order has a slippage strictly between
\* 0 and 1, whether the slippage was supplied or derived from an amount and
\* its bound against the market price.
C11_SlippageInRange ==
    (opc = "returned" /\ call.fn = "create_order" /\ order_res.ok) =>
        (DLt(DInt(0), order_res.val.slippage) /\ DLt(order_res.val.slippage, DInt(1)))

\* C12: for every Command of every registered class, with either value of
\* allow_revert, the command byte is (allow_revert << 7) | opcode with the
\* opcode in 0x00..0x3F: masking with 0x3F gives the opcode back and bit 7
\* gives allow_revert back. The same holds of every byte of the
\* encoded_commands of a plan.
ByteIs(b, op, rev) ==
    /\ op \in 0..63
    /\ b \in 0..255
    /\ b % 64 = op
    /\ ((b \div 128) % 2 = 1) <=> rev
    /\ (b \div 64) % 2 = 0

C12_CommandByte ==
    /\ \A op \in ALL_COMMANDS_BY_TYPE, rev \in BOOLEAN :
          ByteIs(command_byte(Cmd(op, <<>>, rev)), op, rev)
    /\ (cpc = "wire" /\ tamper = "none") =>
          /\ Len(wire.cmds) = Len(commands)
          /\ \A i \in 1..Len(commands) :
                ByteIs(wire.cmds[i], commands[i].type, commands[i].allow_revert)

C12_Witness ==
    /\ cpc = "wire"
    /\ tamper = "none"
    /\ Len(commands) = 2
    /\ commands[1].allow_revert
    /\ ~commands[2].allow_revert
    /\ commands[1].type # commands[2].type

\* C13: Command.decode fails, and yields no command, whenever the opcode bits
\* of the command byte are not an opcode of the command table; and Plan.decode
\* of any command byte array that holds such a byte fails and yields no Plan.
HasUnknownOpcode(bytes) ==
    \E i \in 1..Len(bytes) : bytes[i] % 64 \notin ALL_COMMANDS_BY_TYPE

C13_UnknownOpcodeFails ==
    /\ \A b \in 0..255 :
          (b % 64 \notin ALL_COMMANDS_BY_TYPE) =>
              \A i \in 1..Len(wire.args) :
                  LET r == Command_decode(b, wire.args[i])
                  IN  ~r.ok /\ r.val = <<>>
    /\ (cpc \in {"decoded", "done"} /\ HasUnknownOpcode(wire.cmds)) =>
          (~decoded.ok /\ decoded.val = <<>>)

\* the part of C13 that the code keeps: an unknown opcode among the command
\* bytes that Plan.decode pairs with an argument string makes it fail
C13_PairedUnknownFails ==
    (cpc \in {"decoded", "done"}
        /\ HasUnknownOpcode(SubSeq(wire.cmds, 1, Min(Len(wire.cmds), Len(wire.args))))) =>
        (~decoded.ok /\ decoded.val = <<>>)

\* C14: Command.decode fails whenever the 0x80 bit of the command byte is set
\* and the class of its opcode is not revertible (no class of the command
\* table is): it never returns a command with allow_revert set.
PairedBytes == SubSeq(wire.cmds, 1, Min(Len(wire.cmds), Len(wire.args)))

C14_RevertBitRejected ==
    /\ \A op \in ALL_COMMANDS_BY_TYPE, i \in 1..Len(wire.args) :
          LET r == Command_decode(ALLOW_REVERT_FLAG + op, wire.args[i])
          IN  ~r.ok /\ r.val = <<>>
    /\ cpc \in {"decoded", "done"} =>
          /\ decoded.ok => \A i \in 1..Len(decoded.val) : ~decoded.val[i].allow_revert
          /\ (\E i \in 1..Len(PairedBytes) :
                 PairedBytes[i] >= ALLOW_REVERT_FLAG
                 /\ PairedBytes[i] % 64 \in ALL_COMMANDS_BY_TYPE) => ~decoded.ok

C14_Witness ==
    /\ cpc = "decoded"
    /\ tamper = "revert"
    /\ Len(wire.cmds) = 2
    /\ Len(wire.args) = 2
    /\ wire.cmds[2] >= ALLOW_REVERT_FLAG
    /\ wire.cmds[1] < ALLOW_REVERT_FLAG
    /\ ~decoded.ok
    /\ decoded.err = "ValueError"

\* C15: after any sequence of Plan.add / builder calls, encoded_commands has
\* one byte per command of plan.commands and encode_args() one byte string
\* per command, both in the order of plan.commands.
C15_OneEntryPerCommand ==
    LET bytes == encoded_commands(commands)
        strs == Plan_encode_args(commands)
    IN  /\ Len(bytes) = Len(commands)
        /\ \A i \in 1..Len(commands) : bytes[i] % 64 = commands[i].type
        /\ strs.ok
        /\ Len(strs.val) = Len(commands)
        /\ \A i \in 1..Len(commands) : strs.val[i] = encode_args(commands[i]).val

\* the parts of C15 that the code keeps: a call either appends its command
\* after the commands already held or leaves them as they were, and
\* encoded_commands has one byte per command in that order
C15_AppendOnly ==
    [][\/ commands' = commands
       \/ /\ Len(commands') = Len(commands) + 1
          /\ SubSeq(commands', 1, Len(commands)) = commands]_vars

C15_OneBytePerCommand ==
    LET bytes == encoded_commands(commands)
    IN  /\ Len(bytes) = Len(commands)
        /\ \A i \in 1..Len(commands) : bytes[i] % 64 = commands[i].type

\* encode_args() fails only for a plan that holds a V3 swap whose path was
\* left as a literal tuple
C15_FailsOnlyOnLiteralPath ==
    (\A i \in 1..Len(commands) :
        \A j \in 1..Len(commands[i].args) : commands[i].args[j].k # "tuple") =>
        C15_OneEntryPerCommand

\* C16: a V3 swap command (exact-in or exact-out) whose path is given as a
\* literal sequence token, fee, token, ... through the Plan builder, as a list
\* or as the tuple that encode_route produces, is constructed, and it is the
\* command that results from passing the packed byte string; so every V3 swap
\* held by a plan has its path stored as packed bytes.
LiteralPathCalls ==
    {c \in SampleCalls :
        /\ c[1] \in V3PathClasses
        /\ Len(c[2]) = 5
        /\ c[2][4].k \in {"list", "tuple"}
        /\ Len(c[2][4].v) % 2 = 1}

C16_LiteralPathPacked ==
    /\ \A i \in 1..Len(commands) :
          commands[i].type \in V3PathClasses => commands[i].args[4].k = "bytes"
    /\ build_err # "TypeError"

\* the same, call by call: the builder's command for a literal path is the
\* builder's command for the packed path
C16_BuilderCall ==
    \A c \in LiteralPathCalls, rev \in BOOLEAN :
        LET packed == [c[2] EXCEPT ![4] = BytesV(encode_path(c[2][4].v))]
            built == Command_new(c[1], c[2], "tuple", rev)
        IN  built.ok /\ built = Command_new(c[1], packed, "tuple", rev)

\* the case of C16 that the code keeps: a list path in a list of arguments,
\* Command(args=[...]), is packed
C16_ListInListPacked ==
    \A c \in LiteralPathCalls, rev \in BOOLEAN :
        c[2][4].k = "list" =>
            LET packed == [c[2] EXCEPT ![4] = BytesV(encode_path(c[2][4].v))]
                built == Command_new(c[1], c[2], "list", rev)
            IN  built.ok /\ built = Command_new(c[1], packed, "list", rev)

(***************************************************************************)
(* Claims about the solver's routes (SpecSolver)                           *)
(***************************************************************************)
\* the token reached by trading `tok` through the pools of `route` in tuple
\* order; "none" if some pool does not hold the token that arrives at it
RECURSIVE Walk(_, _)
Walk(route, tok) ==
    IF route = <<>> THEN tok
    ELSE LET p == Head(route)
         IN  IF tok = token0(p) THEN Walk(Tail(route), token1(p))
             ELSE IF tok = token1(p) THEN Walk(Tail(route), token0(p))
             ELSE "none"

\* C17: every route of the Solution that solve returns, read in tuple order,
\* is a contiguous path of pools from the order's have token to its want
\* token, for an ExactIn order and for an ExactOut order alike.
C17_RoutesHaveToWant ==
    spc \in {"solved", "compiled"} =>
        \A k \in 1..Len(solution) :
            /\ solution[k].route # <<>>
            /\ Walk(solution[k].route, order.have) = order.want

C17_Witness ==
    /\ spc = "solved"
    /\ order.kind = "ExactOut"
    /\ Len(solution) = 2
    /\ \A k \in 1..2 : Len(solution[k].route) = 2
    /\ \E k \in 1..2 : solution[k].route \notin {routes[i] : i \in 1..Len(routes)}

(***************************************************************************)
(* Claims about the decomposition of cyclic flows (SpecCycle)              *)
(***************************************************************************)
\* the edges of G that carry flow and can be reached from node u
RECURSIVE ReachedEdges(_, _, _, _)
ReachedEdges(G, f, S, fuel) ==
    LET more == {i \in 1..Len(G) : f[i] > 0 /\ \E j \in S : G[j].v = G[i].u}
    IN  IF fuel = 0 \/ more \subseteq S THEN S ELSE ReachedEdges(G, f, S \cup more, fuel - 1)

FlowEdgesFrom(G, f, u) ==
    ReachedEdges(G, f, {i \in 1..Len(G) : f[i] > 0 /\ G[i].u = u}, Len(G))

\* some flow-carrying edge reachable from u leads back to its own tail
OnFlowCycle(G, f, u) ==
    \E i \in FlowEdgesFrom(G, f, u) :
        \E j \in ReachedEdges(G, f, {i}, Len(G)) : G[j].v = G[i].u

RECURSIVE LiveRoutes(_, _)
LiveRoutes(res, rs) ==
    IF rs = <<>> THEN <<>>
    ELSE (IF \E k \in 1..Len(Head(rs)) : Uninitialized(res, Head(rs)[k])
          THEN <<>> ELSE <<Head(rs)>>) \o LiveRoutes(res, Tail(rs))

\* solve over the live routes alone finds a flow that meets the demand
LiveRoutesCarry(res, o, rs) ==
    LET g == build_graph(<<>>, res, o, routes_iter(o, LiveRoutes(res, rs)))
    IN  g.ok /\ min_cost_flow(g.val, o) # {}

\* C19: when a pool of a candidate route is uninitialized (zero reserves or a
\* zero price), solve abandons that route and goes on with the others: it
\* raises no error for the pool, and it returns a Solution whenever the
\* remaining routes can carry the demand.
C19_UninitializedRouteSkipped ==
    (spc \in {"solved", "failed"}
        /\ \E p \in PoolsOf(routes) : Uninitialized(reserves, p)) =>
        /\ solve_res \notin {"ZeroDivisionError", "InvalidOperation"}
        /\ LiveRoutesCarry(reserves, order, routes) => solve_res = "ok"

\* what the code does instead: every call with an uninitialized pool on a
\* candidate route ends in a Decimal division error
C19_UninitializedAlwaysRaises ==
    (spc \in {"solved", "failed"}
        /\ \E p \in PoolsOf(routes) : Uninitialized(reserves, p)) =>
        solve_res \in {"ZeroDivisionError", "InvalidOperation", "ValueError"}

(***************************************************************************)
(* Claims about hops too large for their pool (SpecSolver)                 *)
(***************************************************************************)
\* some hop of `route`, entered with `token` at cumulative price `pr`, has
\* enough depth for the trade but a trade size outside (0, liquidity), so
\* that solve asks the pool for a reflexivity it cannot compute
RECURSIVE ReflexivityFails(_, _, _, _, _)
ReflexivityFails(res, o, route, token, pr) ==
    IF route = <<>> THEN FALSE
    ELSE LET pair == Head(route)
             nxt  == IF token = token0(pair) THEN token1(pair) ELSE token0(pair)
             bal  == IF nxt = token0(pair) THEN res[pair][1] ELSE res[pair][2]
             liq  == Frac(bal, Pow10(decimals(nxt)))
             p    == price(res, pair, token)
             pr2  == DMul(pr, p.val)
             size == DMul(demand(o), pr2)
             dep  == depth(res, pair, nxt, o.slippage)
         IN  /\ p.ok
             /\ dep.ok
             /\ \/ ~DLt(dep.val, size) /\ ~(DLt(DInt(0), size) /\ DLt(size, liq))
                \/ ReflexivityFails(res, o, Tail(route), nxt, pr2)

\* C20: when the trade size of a hop lies outside (0, liquidity), so that the
\* reflexivity of the hop cannot be computed, solve skips the route of that
\* hop: the failure does not come out of solve, which returns a Solution or
\* reports that the remaining routes cannot carry the demand.
C20_OversizedHopSkipped ==
    (spc \in {"solved", "failed"}
        /\ \E i \in 1..Len(routes) :
              ReflexivityFails(reserves, order, routes_iter(order, routes)[i],
                               start_token(order), DInt(1))) =>
        solve_res \in {"ok", "RuntimeError"}

\* what the code does instead: the ValueError of reflexivity ends solve
C20_OversizedHopRaises ==
    spc \in {"solved", "failed"} =>
        ((\E i \in 1..Len(routes) :
             ReflexivityFails(reserves, order, routes_iter(order, routes)[i],
                              start_token(order), DInt(1)))
         <=> solve_res = "ValueError")

(***************************************************************************)
(* Claims about pool prices (SpecUninit)                                   *)
(***************************************************************************)
\* C21: price(token) of a pool with a zero reserve fails with a ValueError,
\* the error that solve and get_liquidity catch, for either token of the pool
\* and for a v2 pair as for a v3 pool: it returns no number and raises no
\* other error.
C21_ZeroReservePriceFails ==
    spc \in {"solved", "failed"} =>
        \A p \in PoolsOf(routes) :
            (reserves[p][1] = 0 \/ reserves[p][2] = 0) =>
                \A tok \in {token0(p), token1(p)} :
                    LET r == price(reserves, p, tok)
                    IN  ~r.ok /\ r.err = "ValueError"

\* what the code does instead: price never raises ValueError; with no
\* reserves it returns 0 or raises a Decimal division error
C21_PriceNeverValueError ==
    spc \in {"solved", "failed"} =>
        \A p \in PoolsOf(routes) : \A tok \in {token0(p), token1(p)} :
            LET r == price(reserves, p, tok)
            IN  /\ r.err # "ValueError"
                /\ Uninitialized(reserves, p) =>
                      \/ r.ok /\ DIsZero(r.val)
                      \/ r.err \in {"ZeroDivisionError", "InvalidOperation"}

\* the edges of the graph that solve built which carry pool p
EdgesOf(p) == {i \in 1..Len(graph) : graph[i].pair = p}

\* C22: in the graph solve builds, every distinct pool of the candidate routes
\* has an edge of its own; two pools joining the same two tokens never share an
\* edge key, so no pool's edge is overwritten by another's.
C22_EveryPoolOwnEdge ==
    solve_res \in {"ok", "RuntimeError"} =>
        \A p \in PoolsOf(routes) : EdgesOf(p) # {}

\* pools that join the same two tokens with the same fee are the only ones lost
C22_OnlySameFeePoolsCollide ==
    solve_res \in {"ok", "RuntimeError"} =>
        \A p \in PoolsOf(routes) :
            EdgesOf(p) = {} =>
                \E q \in PoolsOf(routes) :
                    /\ q # p
                    /\ token0(q) = token0(p) /\ token1(q) = token1(p)
                    /\ key(q) = key(p)
                    /\ EdgesOf(q) # {}

SwapOpcodes == {V3_SWAP_EXACT_IN, V3_SWAP_EXACT_OUT, V2_SWAP_EXACT_IN, V2_SWAP_EXACT_OUT}

\* C23: a permit_step passed to convert_solution_to_plan is the first command
\* of the returned Plan and every command after it is a swap; when none is
\* passed, the Plan holds swap commands only.
C23_PermitStepFirst ==
    (spc = "compiled" /\ plan_res.ok) =>
        IF permit
        THEN /\ Len(plan_res.val) >= 1
             /\ plan_res.val[1] = PermitStep
             /\ \A i \in 2..Len(plan_res.val) : plan_res.val[i].type \in SwapOpcodes
        ELSE \A i \in 1..Len(plan_res.val) : plan_res.val[i].type \in SwapOpcodes

\* a plan compiled with a permit step and two swaps
C23_Witness ==
    /\ spc = "compiled"
    /\ plan_res.ok
    /\ permit
    /\ Len(plan_res.val) = 3
    /\ plan_res.val[2].type \in SwapOpcodes

\* the absolute amounts, in units of the start token, that the Solution gives to
\* its routes traversing pool p, summed
RECURSIVE AmountThrough(_, _)
AmountThrough(sol, p) ==
    IF sol = <<>> THEN DInt(0)
    ELSE LET r    == Head(sol)
             amt  == DMul(r.ratio, DMul(demand(order), DInt(ONE_START_TOKEN(order))))
             uses == \E j \in 1..Len(r.route) : r.route[j] = p
         IN  DAdd(IF uses THEN amt ELSE DInt(0), AmountThrough(Tail(sol), p))

\* C25: for every Solution and every pool with an edge in the graph, the
\* absolute amounts of the Solution's routes that traverse the pool sum to no
\* more than the flow min_cost_flow assigned to the pool's edge.
C25_RoutesWithinEdgeFlow ==
    spc = "solved" =>
        \A i \in 1..Len(graph) :
            ~DLt(DInt(flows[i]), AmountThrough(solution, graph[i].pair))

\* without a token where two flows merge and split again, the routes stay
\* within the flow of every edge
MergeSplit(G, f) ==
    \E n \in {G[i].v : i \in 1..Len(G)} :
        /\ Cardinality({i \in 1..Len(G) : G[i].v = n /\ f[i] > 0}) > 1
        /\ Cardinality({i \in 1..Len(G) : G[i].u = n /\ f[i] > 0}) > 1

C25_WithinFlowUnlessMergeSplit ==
    (spc = "solved" /\ ~MergeSplit(graph, flows)) =>
        \A i \in 1..Len(graph) :
            ~DLt(DInt(flows[i]), AmountThrough(solution, graph[i].pair))

\* C28: Plan.decode, given n command bytes, returns a Plan of exactly n
\* commands or fails; no command byte is dropped when the argument list has a
\* different length.
C28_DecodeKeepsEveryCommand ==
    (cpc \in {"decoded", "done"} /\ decoded.ok) =>
        Len(decoded.val) = Len(wire.cmds)

\* what the code does instead: the Plan has as many commands as the shorter
\* of the two lists
C28_DecodePairsShorter ==
    (cpc \in {"decoded", "done"} /\ decoded.ok) =>
        Len(decoded.val) = Min(Len(wire.cmds), Len(wire.args))

\* the literal paths among the calls whose length is not odd
PathCalls == {c \in SampleCalls : c[1] \in V3PathClasses /\ Len(c[2]) = 5 /\ c[2][4].k = "list"}
EvenLiteralPaths == {c[2][4].v : c \in {d \in PathCalls : Len(d[2][4].v) % 2 = 0}}

\* C30: encode_path rejects every path that is not of odd length and returns
\* no bytes for it, so no command of a plan carries the packing of an
\* even-length path (one that ends in a fee).
C30_EvenPathRejected ==
    \A i \in 1..Len(commands) :
        commands[i].type \in V3PathClasses =>
            \A path \in EvenLiteralPaths :
                commands[i].args[4] # BytesV(encode_path(path))

\* every literal path is packed element by element, whatever its length:
\* 20 bytes for a token, 3 for a fee
C30_EveryPathPacked ==
    \A c \in PathCalls :
        LET path == c[2][4].v
        IN  Len(encode_path(path)) =
                ADDRESS_BYTES * ((Len(path) + 1) \div 2) + FEE_BYTES * (Len(path) \div 2)

\* C24: the _ManagedLiquidity of a pool returns the same liquidity[token] as
\* its live Liquidity, for token0 and for token1, once every Swap log has been
\* handled, whatever the decimals of the two tokens.
C24_ManagedMatchesLive ==
    (lq_pc = "managed" /\ lq_logs = <<>>) =>
        \A tok \in {token0(lq_pool), token1(lq_pool)} :
            managed_liquidity(lq_managed, lq_pool, tok) = live_liquidity(lq_chain, lq_pool, tok)

\* the managed reserves do follow the balances
C24_ReservesFollowBalances ==
    (lq_pc = "managed" /\ lq_logs = <<>>) =>
        /\ lq_managed.reserve0 = lq_chain.balance0
        /\ lq_managed.reserve1 = lq_chain.balance1

\* the two readings agree for token1, and for token0 when the reserve is zero
\* or the two tokens have the same decimals
C24_AgreeUnlessDecimalsDiffer ==
    (lq_pc = "managed" /\ lq_logs = <<>>) =>
        /\ managed_liquidity(lq_managed, lq_pool, token1(lq_pool))
               = live_liquidity(lq_chain, lq_pool, token1(lq_pool))
        /\ (managed_liquidity(lq_managed, lq_pool, token0(lq_pool))
               = live_liquidity(lq_chain, lq_pool, token0(lq_pool)))
           <=> (decimals(token0(lq_pool)) = decimals(token1(lq_pool))
                   \/ lq_chain.balance0 = 0)

CreatePlanReturned == spc \in {"create_plan returned", "swap returned"}

\* C26: create_plan (or swap) called with explicit, non-empty routes runs the
\* solver over exactly those routes, and find_routes is not consulted.
C26_ExplicitRoutesSolved ==
    (CreatePlanReturned /\ explicit # <<>> /\ solve_res # "none") =>
        (routes = explicit /\ ~consulted)

\* Uniswap.solve itself does take the caller's routes
C26_SolveTakesExplicitRoutes ==
    (spc = "solve returned" /\ explicit # <<>>) => (routes = explicit /\ ~consulted)

\* create_plan always solves over the indexed routes
C26_CreatePlanSolvesIndexed ==
    (CreatePlanReturned /\ solve_res # "none") => (routes = indexed /\ consulted)

SufficientAllowance ==
    sender.account /\ ~DLt(DInt(sender.allowance), permit_amount(order))

\* C27: sign_permit returns a permit command that passes validation, so that
\* swap, for a sender whose Permit2 allowance covers the amount, obtains a
\* permit step and the plan it builds starts with it.
C27_SwapObtainsPermitStep ==
    (spc = "swap returned" /\ SufficientAllowance) =>
        /\ permit
        /\ plan_res.ok => plan_res.val[1].type = PERMIT2_PERMIT

\* sign_permit and sign_permit_batch pass two arguments to a command of three
C27_SignPermitRejected ==
    /\ ~sign_permit.ok /\ sign_permit.err = "ValueError"
    /\ ~sign_permit_batch.ok /\ sign_permit_batch.err = "ValueError"
    /\ (spc = "swap returned" /\ SufficientAllowance) =>
          (call_res = "ValueError" /\ solve_res = "none" /\ ~plan_res.ok)

\* C29: after any sequence of add_step and rm_step calls on an
\* EXECUTE_SUB_PLAN, failed ones included, args[0] holds as many command bytes
\* as args[1] holds argument strings.
C29_SubPlanCountsAgree ==
    sub_err # "idle" => Len(sub_args[1]) = Len(sub_args[2])

\* neither method ever changes the argument strings, and neither succeeds
C29_ArgumentStringsKept ==
    [][sub_err # "idle" => (sub_args'[2] = sub_args[2] /\ sub_err' # "none")]_vars

=============================================================================
